---- MODULE Spec2Model ----
(***************************************************************************)
(* A model of the atria JVM: the monitor tables, synchronized method       *)
(* entry and return, and the class initialization state machine.           *)
(***************************************************************************)
EXTENDS Integers, Sequences, FiniteSets, TLC

(***************************************************************************)
(* Bounds                                                                  *)
(***************************************************************************)
\* number of threads that call into the monitor tables
NumThreads == 2
\* number of heap ids used as monitor keys
NumHeapIds == 2
\* cap on the number of nested entries one thread makes on one monitor
MaxEntry == 2
\* cap on the number of frames of one VM thread
MaxDepth == 3

\* cap on the number of allocations made on the heap
MaxAlloc == 2
\* largest array length allocated
MaxLen == 2

ThreadIds == 1..NumThreads
HeapIds == 1..NumHeapIds
\* class identifiers used as class-monitor keys
MonitorClasses == {"A"}

\* Option::None, for an absent thread id, heap id or class identifier
None == -1

VARIABLES
    object_monitors,        \* thread/monitor.rs Monitors.object_monitors : HeapId -> Monitor
    class_monitors,         \* thread/monitor.rs Monitors.class_monitors : ClassIdentifier -> Monitor
    root_object_monitors,   \* monitor.rs Monitors.object_monitors : HeapId -> Monitor
    mon_call,               \* the last call made on a monitor table, with its result
    held,                   \* per table, key and thread: successful enters minus successful exits
    stack,                  \* JvmThread.stack of each VM thread: its frames, innermost last
    current_thread_id,      \* JvmThread.current_thread_id of each VM thread
    thread_error,           \* the error that ended each VM thread, NoError while it runs
    calls,                  \* the activations of run_main, run_method, initialize and execute of each VM thread
    classes,                \* JvmThread.classes: the class table shared by the VM threads
    loader_cache,           \* the class identifiers the shared class loader has loaded
    class_files,            \* the class files the loader's sources hold
    main_class,             \* the entry class run_main is given
    clinit_runs,            \* per class: how many times execute_clinit has run its <clinit>
    reads,                  \* the getstatic reads made so far, with the state of the class read
    heap_current_id,        \* heap.rs Heap.current_id
    heap_items,             \* heap.rs Heap.items : HeapId -> HeapItem
    heap_poisoned,          \* the heap mutex is poisoned: a thread panicked while holding it
    heap_call,              \* the last call made on the heap, with its result
    allocated,              \* the ids the allocations have returned, in order
    last_stored,            \* per array id and index: the value of the last store, or the value allocated
    guards,                 \* per thread: the shared mutexes whose MutexGuard it holds
    lock_pc,                \* per thread: the operation it is in, the lock site it is at, and its phase there
    ldr_sources,            \* loader.rs BootstrapClassLoader.sources: per source and class, what read_class returns
    ldr_class_files,        \* loader.rs BootstrapClassLoader.class_files: the cache
    ldr_call,               \* the last call of load: its argument, its result and the read_class calls it made
    pure_input,             \* the value a parsing function is given: a class, a descriptor, the bytes of a constant pool
    pure_call,              \* the last application of a parsing function: its name, its argument, its result
    cli,                    \* cli/src/main.rs: where main is, and the exit status and diagnostic of the process
    cur_frame,              \* stack.rs Frame: pc, operand_stack and local_variables of the frame a thread executes
    frame_call              \* the last operation made on the frame, with what it was given and its result

mon_vars == <<object_monitors, class_monitors, root_object_monitors, mon_call, held>>
thread_vars == <<stack, current_thread_id, thread_error>>
init_vars == <<calls, classes, loader_cache, class_files, main_class, clinit_runs, reads>>
vm_vars == <<mon_vars, thread_vars, init_vars>>
heap_vars == <<heap_current_id, heap_items, heap_poisoned, heap_call, allocated, last_stored>>
\* the state of the components that the monitor tables and the VM threads above do not use
lock_vars == <<guards, lock_pc>>
loader_vars == <<ldr_sources, ldr_class_files, ldr_call>>
parser_vars == <<pure_input, pure_call>>
frame_vars == <<cur_frame, frame_call>>
other_vars == <<cli, frame_vars>>
rest_vars == <<heap_vars, lock_vars, loader_vars, parser_vars, other_vars>>
vars == <<mon_vars, thread_vars, init_vars, rest_vars>>

(***************************************************************************)
(* Monitor (src/jvm/src/thread/monitor.rs, src/jvm/src/monitor.rs)         *)
(***************************************************************************)
\* Monitor::new
Monitor_new(thread_id) == [entry_count |-> 1, owner |-> thread_id]

\* Monitor::owned_by
owned_by(monitor, thread_id) ==
    IF monitor.owner # None THEN monitor.owner = thread_id ELSE FALSE

\* HashMap::insert
MapInsert(map, k, v) == [x \in DOMAIN map \cup {k} |-> IF x = k THEN v ELSE map[x]]

\* HashMap::remove
MapRemove(map, k) == [x \in DOMAIN map \ {k} |-> map[x]]

\* the result of an enter (ret: bool) or exit (ret: Ok or the error)
Result(monitors, ret) == [monitors |-> monitors, ret |-> ret]

\* the error values of the exit functions
ErrIllegalMonitor == "TODO: IllegalMonitorAccessException"
ErrNoMonitor == "no monitor found"
Ok == "Ok"

\* enter_object_monitor with the owner test lost: any thread may re-enter
enter_object_monitor_any_owner(monitors, heap_id, thread_id) ==
    IF heap_id \in DOMAIN monitors
    THEN Result([monitors EXCEPT ![heap_id].entry_count = @ + 1], TRUE)
    ELSE Result(MapInsert(monitors, heap_id, Monitor_new(thread_id)), TRUE)

\* thread/monitor.rs Monitors::enter_object_monitor
enter_object_monitor(monitors, heap_id, thread_id) ==
    IF heap_id \in DOMAIN monitors
    THEN IF owned_by(monitors[heap_id], thread_id)
         THEN Result([monitors EXCEPT ![heap_id].entry_count = @ + 1], TRUE)
         ELSE Result(monitors, FALSE)
    ELSE Result(MapInsert(monitors, heap_id, Monitor_new(thread_id)), TRUE)

\* thread/monitor.rs Monitors::enter_class_monitor
enter_class_monitor(monitors, class_identifier, thread_id) ==
    IF class_identifier \in DOMAIN monitors
    THEN IF owned_by(monitors[class_identifier], thread_id)
         THEN Result([monitors EXCEPT ![class_identifier].entry_count = @ + 1], TRUE)
         ELSE Result(monitors, FALSE)
    ELSE Result(MapInsert(monitors, class_identifier, Monitor_new(thread_id)), TRUE)

\* monitor.rs Monitors::enter_object_monitor
root_enter_object_monitor(monitors, heap_id, thread_id) ==
    IF heap_id \in DOMAIN monitors
    THEN IF owned_by(monitors[heap_id], thread_id)
         THEN Result([monitors EXCEPT ![heap_id].entry_count = @ + 1], TRUE)
         ELSE Result(monitors, FALSE)
    ELSE Result(MapInsert(monitors, heap_id, Monitor_new(thread_id)), TRUE)

\* the monitor after the owner's exit: the count decremented, the owner
\* cleared when the count is zero
Exited(monitor) ==
    LET entry_count == monitor.entry_count - 1 IN
    [entry_count |-> entry_count,
     owner |-> IF entry_count = 0 THEN None ELSE monitor.owner]

\* exit_object_monitor with the owner test lost: any thread may exit
exit_object_monitor_any_owner(monitors, heap_id, thread_id) ==
    IF heap_id \in DOMAIN monitors
    THEN Result(MapRemove([monitors EXCEPT ![heap_id] = Exited(@)], heap_id), Ok)
    ELSE Result(monitors, ErrNoMonitor)

\* thread/monitor.rs Monitors::exit_object_monitor: after the decrement the
\* entry is removed from the map, whatever its count
exit_object_monitor(monitors, heap_id, thread_id) ==
    IF heap_id \in DOMAIN monitors
    THEN IF owned_by(monitors[heap_id], thread_id)
         THEN Result(MapRemove([monitors EXCEPT ![heap_id] = Exited(@)], heap_id), Ok)
         ELSE Result(monitors, ErrIllegalMonitor)
    ELSE Result(monitors, ErrNoMonitor)

\* thread/monitor.rs Monitors::exit_class_monitor: after the decrement the
\* entry is removed from the map, whatever its count
exit_class_monitor(monitors, class_identifier, thread_id) ==
    IF class_identifier \in DOMAIN monitors
    THEN IF owned_by(monitors[class_identifier], thread_id)
         THEN Result(MapRemove([monitors EXCEPT ![class_identifier] = Exited(@)],
                               class_identifier), Ok)
         ELSE Result(monitors, ErrIllegalMonitor)
    ELSE Result(monitors, ErrNoMonitor)

\* monitor.rs Monitors::exit_object_monitor: the entry is never removed
root_exit_object_monitor(monitors, heap_id, thread_id) ==
    IF heap_id \in DOMAIN monitors
    THEN IF owned_by(monitors[heap_id], thread_id)
         THEN Result([monitors EXCEPT ![heap_id] = Exited(@)], Ok)
         ELSE Result(monitors, ErrIllegalMonitor)
    ELSE Result(monitors, ErrNoMonitor)

(***************************************************************************)
(* Calls on the monitor tables by the threads that share them              *)
(***************************************************************************)
EmptyMap == [x \in {} |-> None]

NoCall == [table |-> "none", op |-> "none", key |-> None, thread |-> None, ret |-> Ok]

MonInit ==
    /\ object_monitors = EmptyMap
    /\ class_monitors = EmptyMap
    /\ root_object_monitors = EmptyMap
    /\ mon_call = NoCall
    /\ held = [object |-> [h \in HeapIds |-> [t \in ThreadIds |-> 0]],
               class |-> [c \in MonitorClasses |-> [t \in ThreadIds |-> 0]],
               root |-> [h \in HeapIds |-> [t \in ThreadIds |-> 0]]]

\* the three tables are separate maps and no function touches two of them:
\* one run of the callers works on one table
Uses(table) == mon_call.table \in {"none", table}

\* the caller's count after an enter that returned ret
AfterEnter(count, ret) == IF ret THEN count + 1 ELSE count

\* the caller's count after an exit that returned ret
AfterExit(count, ret) == IF ret = Ok THEN count - 1 ELSE count

EnterObject(t, h) ==
    LET r == enter_object_monitor(object_monitors, h, t) IN
    /\ Uses("object")
    /\ held.object[h][t] < MaxEntry
    /\ object_monitors' = r.monitors
    /\ mon_call' = [table |-> "object", op |-> "enter", key |-> h, thread |-> t,
                    ret |-> IF r.ret THEN Ok ELSE "false"]
    /\ held' = [held EXCEPT !.object[h][t] = AfterEnter(@, r.ret)]
    /\ UNCHANGED <<class_monitors, root_object_monitors>>
    /\ UNCHANGED <<thread_vars, init_vars, rest_vars>>

ExitObject(t, h) ==
    LET r == exit_object_monitor(object_monitors, h, t) IN
    /\ Uses("object")
    /\ object_monitors' = r.monitors
    /\ mon_call' = [table |-> "object", op |-> "exit", key |-> h, thread |-> t,
                    ret |-> r.ret]
    /\ held' = [held EXCEPT !.object[h][t] = AfterExit(@, r.ret)]
    /\ UNCHANGED <<class_monitors, root_object_monitors>>
    /\ UNCHANGED <<thread_vars, init_vars, rest_vars>>

EnterClass(t, c) ==
    LET r == enter_class_monitor(class_monitors, c, t) IN
    /\ Uses("class")
    /\ held.class[c][t] < MaxEntry
    /\ class_monitors' = r.monitors
    /\ mon_call' = [table |-> "class", op |-> "enter", key |-> c, thread |-> t,
                    ret |-> IF r.ret THEN Ok ELSE "false"]
    /\ held' = [held EXCEPT !.class[c][t] = AfterEnter(@, r.ret)]
    /\ UNCHANGED <<object_monitors, root_object_monitors>>
    /\ UNCHANGED <<thread_vars, init_vars, rest_vars>>

ExitClass(t, c) ==
    LET r == exit_class_monitor(class_monitors, c, t) IN
    /\ Uses("class")
    /\ class_monitors' = r.monitors
    /\ mon_call' = [table |-> "class", op |-> "exit", key |-> c, thread |-> t,
                    ret |-> r.ret]
    /\ held' = [held EXCEPT !.class[c][t] = AfterExit(@, r.ret)]
    /\ UNCHANGED <<object_monitors, root_object_monitors>>
    /\ UNCHANGED <<thread_vars, init_vars, rest_vars>>

RootEnterObject(t, h) ==
    LET r == root_enter_object_monitor(root_object_monitors, h, t) IN
    /\ Uses("root")
    /\ held.root[h][t] < MaxEntry
    /\ root_object_monitors' = r.monitors
    /\ mon_call' = [table |-> "root", op |-> "enter", key |-> h, thread |-> t,
                    ret |-> IF r.ret THEN Ok ELSE "false"]
    /\ held' = [held EXCEPT !.root[h][t] = AfterEnter(@, r.ret)]
    /\ UNCHANGED <<object_monitors, class_monitors>>
    /\ UNCHANGED <<thread_vars, init_vars, rest_vars>>

RootExitObject(t, h) ==
    LET r == root_exit_object_monitor(root_object_monitors, h, t) IN
    /\ Uses("root")
    /\ root_object_monitors' = r.monitors
    /\ mon_call' = [table |-> "root", op |-> "exit", key |-> h, thread |-> t,
                    ret |-> r.ret]
    /\ held' = [held EXCEPT !.root[h][t] = AfterExit(@, r.ret)]
    /\ UNCHANGED <<object_monitors, class_monitors>>
    /\ UNCHANGED <<thread_vars, init_vars, rest_vars>>

(***************************************************************************)
(* Synchronized methods (src/jvm/src/thread.rs)                            *)
(***************************************************************************)
\* the VM threads: the main thread and one started by Thread.start0
MainThread == 1
StartedThread == 2
VmThreads == {MainThread, StartedThread}

\* the methods of the class the threads run: access flags of each
Methods ==
    [m |-> [synchronized |-> TRUE, static |-> FALSE, native |-> FALSE],
     n |-> [synchronized |-> FALSE, static |-> FALSE, native |-> FALSE],
     s |-> [synchronized |-> TRUE, static |-> TRUE, native |-> FALSE],
     w |-> [synchronized |-> TRUE, static |-> FALSE, native |-> TRUE],
     run |-> [synchronized |-> FALSE, static |-> FALSE, native |-> FALSE]]
MethodNames == {"m", "n", "s", "w"}
MethodClass == "A"

\* ReferenceValue::HeapItem / ReferenceValue::Class
HeapItem(h) == [kind |-> "HeapItem", id |-> h]
ClassRef(c) == [kind |-> "Class", id |-> c]
Receivers == {HeapItem(h) : h \in HeapIds} \cup {ClassRef(c) : c \in MonitorClasses}

\* ReferenceValue::heap_id().ok()
heap_id_of(reference) == IF reference.kind = "HeapItem" THEN reference.id ELSE None

NoError == "running"
ErrNoThreadId == "how do we not have a thread id?"
ErrWait == "TODO: wait for monitor to be available"
ErrNoObjectRef == "no object_ref in current frame"

\* Stack::push: the frame of a method, with the receiver heap id given to it
Frame(method_name, class, object_ref) ==
    [method_name |-> method_name, class |-> class, object_ref |-> object_ref,
     pc |-> 1, operand_stack |-> <<>>]

\* JvmThread::new and run_method: no thread id, the frame of run()V;
\* the main thread has the id new_thread_object gave it
SyncInit ==
    /\ stack = [t \in VmThreads |-> <<Frame("run", MethodClass, None)>>]
    /\ current_thread_id = [t \in VmThreads |-> IF t = MainThread THEN 1 ELSE None]
    /\ thread_error = [t \in VmThreads |-> NoError]

Running(t) == thread_error[t] = NoError /\ Len(stack[t]) > 0

Crash(t, err) ==
    /\ thread_error' = [thread_error EXCEPT ![t] = err]
    /\ UNCHANGED <<stack, current_thread_id>>

\* the entry count of the monitor of a key, 0 when the table has none
EntryCount(monitors, key) ==
    IF key \in DOMAIN monitors THEN monitors[key].entry_count ELSE 0

\* JvmThread::invoke_virtual on a non-null receiver: a method with code gets
\* a frame, a native method runs inside the call
invoke_virtual(t, name, objectref) ==
    LET method == Methods[name]
        heap_id == heap_id_of(objectref)
        thread_id == current_thread_id[t]
        entered == IF heap_id # None
                   THEN enter_object_monitor(object_monitors, heap_id, thread_id)
                   ELSE enter_class_monitor(class_monitors, objectref.id, thread_id)
        pushed == /\ stack' = [stack EXCEPT ![t] =
                                   IF method.native THEN @
                                   ELSE Append(@, Frame(name, MethodClass, heap_id))]
                  /\ UNCHANGED <<current_thread_id, thread_error>>
    IN
    /\ Running(t)
    /\ Len(stack[t]) < MaxDepth
    /\ ~method.static
    /\ method.native => EntryCount(IF heap_id # None THEN object_monitors ELSE class_monitors,
                                   IF heap_id # None THEN heap_id ELSE objectref.id) < MaxEntry
    /\ IF method.synchronized
       THEN IF thread_id = None
            THEN Crash(t, ErrNoThreadId) /\ UNCHANGED <<object_monitors, class_monitors>>
            ELSE /\ IF heap_id # None
                    THEN object_monitors' = entered.monitors /\ UNCHANGED class_monitors
                    ELSE class_monitors' = entered.monitors /\ UNCHANGED object_monitors
                 /\ IF entered.ret THEN pushed ELSE Crash(t, ErrWait)
       ELSE pushed /\ UNCHANGED <<object_monitors, class_monitors>>
    /\ UNCHANGED <<root_object_monitors, mon_call, held, init_vars, rest_vars>>

\* JvmThread::invoke_static
invoke_static(t, name) ==
    LET method == Methods[name]
        thread_id == current_thread_id[t]
        entered == enter_class_monitor(class_monitors, MethodClass, thread_id)
        pushed == /\ stack' = [stack EXCEPT ![t] =
                                   IF method.native THEN @
                                   ELSE Append(@, Frame(name, MethodClass, None))]
                  /\ UNCHANGED <<current_thread_id, thread_error>>
    IN
    /\ Running(t)
    /\ Len(stack[t]) < MaxDepth
    /\ method.static
    /\ IF method.synchronized
       THEN IF thread_id = None
            THEN Crash(t, ErrNoThreadId) /\ UNCHANGED class_monitors
            ELSE /\ class_monitors' = entered.monitors
                 /\ IF entered.ret THEN pushed ELSE Crash(t, ErrWait)
       ELSE pushed /\ UNCHANGED class_monitors
    /\ UNCHANGED <<object_monitors, root_object_monitors, mon_call, held, init_vars, rest_vars>>

\* JvmThread::handle_synchronized_return and the pop of the frame that
\* follows it in every return instruction of JvmThread::execute
handle_synchronized_return(t) ==
    LET frame == stack[t][Len(stack[t])]
        method == Methods[frame.method_name]
        thread_id == current_thread_id[t]
        exited == IF method.static
                  THEN exit_class_monitor(class_monitors, frame.class, thread_id)
                  ELSE exit_object_monitor(object_monitors, frame.object_ref, thread_id)
        popped == /\ stack' = [stack EXCEPT ![t] = SubSeq(@, 1, Len(@) - 1)]
                  /\ UNCHANGED <<current_thread_id, thread_error>>
    IN
    /\ Running(t)
    /\ IF method.synchronized
       THEN IF thread_id = None
            THEN Crash(t, ErrNoThreadId) /\ UNCHANGED <<object_monitors, class_monitors>>
            ELSE IF ~method.static /\ frame.object_ref = None
            THEN Crash(t, ErrNoObjectRef) /\ UNCHANGED <<object_monitors, class_monitors>>
            ELSE /\ IF method.static
                    THEN class_monitors' = exited.monitors /\ UNCHANGED object_monitors
                    ELSE object_monitors' = exited.monitors /\ UNCHANGED class_monitors
                 /\ IF exited.ret = Ok THEN popped ELSE Crash(t, exited.ret)
       ELSE popped /\ UNCHANGED <<object_monitors, class_monitors>>
    /\ UNCHANGED <<root_object_monitors, mon_call, held, init_vars, rest_vars>>

InvokeVirtual == \E t \in VmThreads, name \in MethodNames, r \in Receivers : invoke_virtual(t, name, r)
InvokeStatic == \E t \in VmThreads, name \in MethodNames : invoke_static(t, name)
Return == \E t \in VmThreads : handle_synchronized_return(t)

(***************************************************************************)
(* Class files and the class record (src/jvm/src/class.rs)                 *)
(***************************************************************************)
JavaLangClass == "java.lang.Class"
JavaLangObject == "java.lang.Object"
JavaLangThread == "java.lang.Thread"
NoClass == "none"

\* one instruction of a method's code
Ins(op, class, value) == [op |-> op, class |-> class, value |-> value]
GetStatic(c) == Ins("getstatic", c, 0)
PutStatic(c) == Ins("putstatic", c, 0)
Iconst(v) == Ins("iconst", NoClass, v)
Iadd == Ins("iadd", NoClass, 0)
Start0(c) == Ins("start0", c, 0)
ReturnIns == Ins("return", NoClass, 0)

\* no ConstantValue attribute
NoConstant == [kind |-> "none"]

\* the constant pool item a ConstantValue attribute names
ConstantItem(kind, value) == [kind |-> kind, value |-> value]

\* a field of a class file: its name, its access flags and its ConstantValue
Field(name, access_flags, constant_value) ==
    [name |-> name, access_flags |-> access_flags, constant_value |-> constant_value]

\* a class file: its super class, its fields, the static field its code
\* reads and writes, the code of <clinit> (empty when the class has no
\* <clinit>) and the code of run()V
ClassFileOf(super_class, fields, field, clinit, run) ==
    [super_class |-> super_class, fields |-> fields, field |-> field,
     clinit |-> clinit, run |-> run]

\* a class file whose only field is the static int named field
ClassFile(super_class, field, clinit, run) ==
    ClassFileOf(super_class, <<Field(field, {"static"}, NoConstant)>>, field, clinit, run)

\* static int x = <other>.x + 1
ReadsOne(own, other) ==
    <<GetStatic(other), Iconst(1), Iadd, PutStatic(own), ReturnIns>>

\* static int x = <first>.x + <second>.x
ReadsTwo(own, first, second) ==
    <<GetStatic(first), GetStatic(second), Iadd, PutStatic(own), ReturnIns>>

\* static int x = 5
SetsFive(own) == <<Iconst(5), PutStatic(own), ReturnIns>>

JdkFiles ==
    [c \in {JavaLangClass, JavaLangObject, JavaLangThread} |->
        IF c = JavaLangObject THEN ClassFile(NoClass, "x", <<>>, <<>>)
        ELSE IF c = JavaLangThread THEN ClassFile(JavaLangObject, "threadSeqNumber", <<>>, <<>>)
        ELSE ClassFile(JavaLangObject, "x", <<>>, <<>>)]

\* A.<clinit> reads B.x and B.<clinit> reads A.x
CycleFiles ==
    [c \in {"A", "B"} |->
        IF c = "A" THEN ClassFile(JavaLangObject, "x", ReadsOne("A", "B"), <<>>)
        ELSE ClassFile(JavaLangObject, "x", ReadsOne("B", "A"), <<>>)] @@ JdkFiles

\* A reads B.x and C.x; B and C extend D and read D.x; D sets its x
DiamondFiles ==
    [c \in {"A", "B", "C", "D"} |->
        IF c = "A" THEN ClassFile(JavaLangObject, "x", ReadsTwo("A", "B", "C"), <<>>)
        ELSE IF c = "B" THEN ClassFile("D", "x", ReadsOne("B", "D"), <<>>)
        ELSE IF c = "C" THEN ClassFile("D", "x", ReadsOne("C", "D"), <<>>)
        ELSE ClassFile(JavaLangObject, "x", SetsFive("D"), <<>>)] @@ JdkFiles

\* java.lang.Class.<clinit> reads A.x, A.<clinit> reads java.lang.Class.x, B extends A
ClassCycleFiles ==
    [c \in {"A", "B", JavaLangClass} |->
        IF c = "A" THEN ClassFile(JavaLangObject, "x", ReadsOne("A", JavaLangClass), <<>>)
        ELSE IF c = "B" THEN ClassFile("A", "x", <<>>, <<>>)
        ELSE ClassFile(JavaLangObject, "x", ReadsOne(JavaLangClass, "A"), <<>>)] @@ JdkFiles

\* A.<clinit> starts a thread on an A, whose run()V reads B.x, then reads B.x itself
StartFiles ==
    [c \in {"A", "B"} |->
        IF c = "A"
        THEN ClassFile(JavaLangObject, "x", <<Start0("A")>> \o ReadsOne("A", "B"),
                       <<GetStatic("B"), ReturnIns>>)
        ELSE ClassFile(JavaLangObject, "x", ReadsOne("B", "A"), <<>>)] @@ JdkFiles

\* FieldValue::from(FieldDescriptor) for an int or long field
DefaultValue == 0

\* Class::new
Class_new(identifier) ==
    [identifier |-> identifier, initialized |-> FALSE, being_initialized |-> FALSE,
     fields |-> EmptyMap]

\* Class::initializing
initializing(class) == [class EXCEPT !.being_initialized = TRUE]

\* finished_initialization applied to the caller's clone: the record is left as it was
finished_initialization_on_clone(class) == class

\* Class::finished_initialization
finished_initialization(class) == [class EXCEPT !.initialized = TRUE]

\* Field::is_static
is_static(field) == "static" \in field.access_flags

\* Field::get_constant_value_index
get_constant_value_index(field) == field.constant_value

\* the constant is lost: the field gets its default
resolve_constant_value_default(item) ==
    [status |-> "Ok", value |-> DefaultValue]

\* JvmThread::resolve_constant_value, for the numeric items
resolve_constant_value(item) ==
    IF item.kind \in {"Integer", "Long", "Float", "Double"}
    THEN [status |-> "Ok", value |-> item.value]
    ELSE [status |-> "Err", value |-> DefaultValue]

\* JvmThread::initialize_static_final_field: the field's constant, or its
\* default, is set in the record; status says whether the constant resolved
initialize_static_final_field(class, field) ==
    LET field_value ==
            IF get_constant_value_index(field) # NoConstant
            THEN resolve_constant_value(get_constant_value_index(field))
            ELSE [status |-> "Ok", value |-> DefaultValue]
    IN [status |-> field_value.status,
        class |-> IF field_value.status = "Ok"
                  THEN [class EXCEPT !.fields = MapInsert(@, field.name, field_value.value)]
                  ELSE class]

\* the loop of JvmThread::initialize_static_fields over the fields left
RECURSIVE static_fields_loop(_, _)
static_fields_loop(class, fields) ==
    IF fields = <<>> THEN [status |-> "Ok", class |-> class]
    ELSE IF is_static(Head(fields))
    THEN LET done == initialize_static_final_field(class, Head(fields))
         IN IF done.status = "Ok" THEN static_fields_loop(done.class, Tail(fields))
            ELSE done
    ELSE static_fields_loop(class, Tail(fields))

\* JvmThread::initialize_static_fields: every static field gets its constant
\* or its default
initialize_static_fields(class, file) == static_fields_loop(class, file.fields)

\* Class::has_super_class
has_super_class(file) == file.super_class # NoClass

\* the test at the head of initialize without the being_initialized flag
already_initialized_only(class) == class.initialized

\* the test at the head of JvmThread::initialize
already_initializing(class) == class.initialized \/ class.being_initialized

\* BootstrapClassLoader::load: the identifiers cached by a load of c, which
\* loads the super class before caching the class
RECURSIVE LoadedBy(_, _)
LoadedBy(files, c) ==
    IF has_super_class(files[c]) THEN {c} \cup LoadedBy(files, files[c].super_class) ELSE {c}

(***************************************************************************)
(* Class initialization (src/jvm/src/thread.rs)                            *)
(***************************************************************************)
NotStarted == "not started"
ExitedNormally == "exited normally"
ErrRunMain == "TODO: run_main"
ErrNotInitialized == "class is not initialized"
ErrConstantValue == "invalid constant pool item"

\* an activation of run_main, run_method, initialize or execute
Call(fn, identifier, pc) == [fn |-> fn, identifier |-> identifier, pc |-> pc]

Top(t) == calls[t][Len(calls[t])]
Active(t, fn, pc) ==
    /\ thread_error[t] = NoError
    /\ Len(calls[t]) > 0
    /\ Top(t).fn = fn
    /\ Top(t).pc = pc

\* the activations of t with the innermost at pc
At(t, pc) == [calls[t] EXCEPT ![Len(calls[t])].pc = pc]
\* the activations of t with the innermost at pc and a call of initialize(c) on top
CallInitialize(t, pc, c) == Append(At(t, pc), Call("initialize", c, "check"))
\* the activations of t after the innermost returned
Returned(t) == SubSeq(calls[t], 1, Len(calls[t]) - 1)

\* the order of the statements of initialize with the insertion into the
\* class table moved behind the initialization of the super class
initialize_next_insert_late(pc) ==
    CASE pc = "check" -> "load"
      [] pc = "load" -> "class_fields"
      [] pc = "class_fields" -> "super"
      [] pc = "super" -> "insert"
      [] pc = "insert" -> "clinit"
      [] pc = "clinit" -> "finish"

\* the order of the statements of JvmThread::initialize
initialize_next(pc) ==
    CASE pc = "check" -> "load"
      [] pc = "load" -> "class_fields"
      [] pc = "class_fields" -> "insert"
      [] pc = "insert" -> "super"
      [] pc = "super" -> "clinit"
      [] pc = "clinit" -> "finish"

InitInit(files) ==
    /\ calls = [t \in VmThreads |->
                   IF t = MainThread THEN <<Call("run_main", NoClass, "class")>> ELSE <<>>]
    /\ stack = [t \in VmThreads |-> <<>>]
    /\ current_thread_id = [t \in VmThreads |-> None]
    /\ thread_error = [t \in VmThreads |-> IF t = MainThread THEN NoError ELSE NotStarted]
    /\ classes = EmptyMap
    /\ loader_cache = {}
    /\ class_files \in files
    /\ main_class \in {"A", "B"}
    /\ clinit_runs = [c \in DOMAIN class_files |-> 0]
    /\ reads = {}

\* JvmThread::run_main
run_main(t) ==
    /\ thread_error[t] = NoError /\ Len(calls[t]) > 0 /\ Top(t).fn = "run_main"
    /\ CASE Top(t).pc = "class" ->
              /\ calls' = [calls EXCEPT ![t] = CallInitialize(t, "object", JavaLangClass)]
              /\ UNCHANGED <<classes, current_thread_id, thread_error>>
         [] Top(t).pc = "object" ->
              /\ calls' = [calls EXCEPT ![t] = CallInitialize(t, "thread", JavaLangObject)]
              /\ UNCHANGED <<classes, current_thread_id, thread_error>>
         [] Top(t).pc = "thread" ->
              \* new_thread_object: resolve_class(java.lang.Thread)
              /\ calls' = [calls EXCEPT ![t] = CallInitialize(t, "thread_id", JavaLangThread)]
              /\ UNCHANGED <<classes, current_thread_id, thread_error>>
         [] Top(t).pc = "thread_id" ->
              \* new_thread_object: the thread id is threadSeqNumber, which is incremented
              LET thread_id == classes[JavaLangThread].fields["threadSeqNumber"] IN
              /\ classes' = [classes EXCEPT ![JavaLangThread].fields["threadSeqNumber"] = thread_id + 1]
              /\ current_thread_id' = [current_thread_id EXCEPT ![t] = thread_id]
              /\ calls' = [calls EXCEPT ![t] = At(t, "main")]
              /\ UNCHANGED thread_error
         [] Top(t).pc = "main" ->
              /\ calls' = [calls EXCEPT ![t] = CallInitialize(t, "todo", main_class)]
              /\ UNCHANGED <<classes, current_thread_id, thread_error>>
         [] Top(t).pc = "todo" ->
              /\ thread_error' = [thread_error EXCEPT ![t] = ErrRunMain]
              /\ UNCHANGED <<classes, current_thread_id, calls>>
    /\ UNCHANGED <<mon_vars, stack, loader_cache, class_files, rest_vars, main_class, clinit_runs, reads>>

\* JvmThread::run_method on the thread Thread.start0 spawned
run_method(t) ==
    /\ thread_error[t] = NoError /\ Len(calls[t]) > 0 /\ Top(t).fn = "run_method"
    /\ CASE Top(t).pc = "resolve" ->
              \* resolve_method initializes the class
              /\ calls' = [calls EXCEPT ![t] = CallInitialize(t, "push", Top(t).identifier)]
              /\ UNCHANGED <<stack, thread_error>>
         [] Top(t).pc = "push" ->
              /\ stack' = [stack EXCEPT ![t] = Append(@, Frame("run", Top(t).identifier, None))]
              /\ calls' = [calls EXCEPT ![t] =
                              Append(At(t, "done"), Call("execute", Top(t).identifier, "fetch"))]
              /\ UNCHANGED thread_error
         [] Top(t).pc = "done" ->
              /\ thread_error' = [thread_error EXCEPT ![t] = ExitedNormally]
              /\ calls' = [calls EXCEPT ![t] = Returned(t)]
              /\ UNCHANGED stack
    /\ UNCHANGED <<mon_vars, current_thread_id, classes, loader_cache, class_files, rest_vars,
                   main_class, clinit_runs, reads>>

\* JvmThread::initialize, lines 346-350: return at once when the class is in
\* the table and is initialized or being initialized
initialize_check(t) ==
    LET identifier == Top(t).identifier IN
    /\ Active(t, "initialize", "check")
    /\ IF identifier \in DOMAIN classes /\ already_initializing(classes[identifier])
       THEN calls' = [calls EXCEPT ![t] = Returned(t)]
       ELSE calls' = [calls EXCEPT ![t] = At(t, initialize_next("check"))]
    /\ UNCHANGED <<mon_vars, thread_vars, classes, loader_cache, class_files, rest_vars,
                   main_class, clinit_runs, reads>>

\* JvmThread::initialize, line 353: load the class file
initialize_load(t) ==
    LET identifier == Top(t).identifier IN
    /\ Active(t, "initialize", "load")
    /\ loader_cache' = loader_cache \cup LoadedBy(class_files, identifier)
    /\ calls' = [calls EXCEPT ![t] = At(t, initialize_next("load"))]
    /\ UNCHANGED <<mon_vars, thread_vars, classes, class_files, rest_vars, main_class, clinit_runs, reads>>

\* JvmThread::initialize, lines 355-371: build the record and, for a class other
\* than java.lang.Class, read java.lang.Class from the table
initialize_class_fields(t) ==
    LET identifier == Top(t).identifier IN
    /\ Active(t, "initialize", "class_fields")
    /\ IF identifier # JavaLangClass /\ JavaLangClass \notin DOMAIN classes
       THEN /\ thread_error' = [thread_error EXCEPT ![t] = ErrNotInitialized]
            /\ UNCHANGED calls
       ELSE /\ calls' = [calls EXCEPT ![t] = At(t, initialize_next("class_fields"))]
            /\ UNCHANGED thread_error
    /\ UNCHANGED <<mon_vars, stack, current_thread_id, classes, loader_cache, class_files, rest_vars,
                   main_class, clinit_runs, reads>>

\* JvmThread::initialize, lines 353-354 and 373: initialize_static_fields, then
\* JvmThread::insert_class
initialize_insert(t) ==
    LET identifier == Top(t).identifier
        done == initialize_static_fields(initializing(Class_new(identifier)),
                                         class_files[identifier])
    IN
    /\ Active(t, "initialize", "insert")
    /\ IF done.status = "Ok"
       THEN /\ classes' = MapInsert(classes, identifier, done.class)
            /\ calls' = [calls EXCEPT ![t] = At(t, initialize_next("insert"))]
            /\ UNCHANGED thread_error
       ELSE /\ thread_error' = [thread_error EXCEPT ![t] = ErrConstantValue]
            /\ UNCHANGED <<classes, calls>>
    /\ UNCHANGED <<mon_vars, stack, current_thread_id, loader_cache, class_files, rest_vars,
                   main_class, clinit_runs, reads>>

\* JvmThread::initialize, lines 375-378: initialize the super class
initialize_super(t) ==
    LET identifier == Top(t).identifier
        file == class_files[identifier]
    IN
    /\ Active(t, "initialize", "super")
    /\ IF has_super_class(file)
       THEN calls' = [calls EXCEPT ![t] =
                         CallInitialize(t, initialize_next("super"), file.super_class)]
       ELSE calls' = [calls EXCEPT ![t] = At(t, initialize_next("super"))]
    /\ UNCHANGED <<mon_vars, thread_vars, classes, loader_cache, class_files, rest_vars,
                   main_class, clinit_runs, reads>>

\* execute_clinit when the lookup of <clinit> never matches: nothing is run
execute_clinit_not_found(t) ==
    /\ Active(t, "initialize", "clinit")
    /\ calls' = [calls EXCEPT ![t] = At(t, initialize_next("clinit"))]
    /\ UNCHANGED <<mon_vars, thread_vars, classes, loader_cache, class_files, rest_vars, main_class,
                   clinit_runs, reads>>

\* JvmThread::execute_clinit: push the frame of <clinit> and execute it
execute_clinit(t) ==
    LET identifier == Top(t).identifier
        file == class_files[identifier]
    IN
    /\ Active(t, "initialize", "clinit")
    /\ IF file.clinit # <<>>
       THEN /\ stack' = [stack EXCEPT ![t] = Append(@, Frame("<clinit>", identifier, None))]
            /\ calls' = [calls EXCEPT ![t] =
                            Append(At(t, initialize_next("clinit")),
                                   Call("execute", identifier, "fetch"))]
            /\ clinit_runs' = [clinit_runs EXCEPT ![identifier] = @ + 1]
       ELSE /\ calls' = [calls EXCEPT ![t] = At(t, initialize_next("clinit"))]
            /\ UNCHANGED <<stack, clinit_runs>>
    /\ UNCHANGED <<mon_vars, current_thread_id, thread_error, classes, loader_cache,
                   class_files, rest_vars, main_class, reads>>

\* JvmThread::initialize, lines 398-405: mark the record in the table initialized
initialize_finish(t) ==
    LET identifier == Top(t).identifier IN
    /\ Active(t, "initialize", "finish")
    /\ classes' = [classes EXCEPT ![identifier] = finished_initialization(@)]
    /\ calls' = [calls EXCEPT ![t] = Returned(t)]
    /\ UNCHANGED <<mon_vars, thread_vars, loader_cache, class_files, rest_vars, main_class,
                   clinit_runs, reads>>

(***************************************************************************)
(* The instructions of <clinit> and run()V (JvmThread::execute)            *)
(***************************************************************************)
TopFrame(t) == stack[t][Len(stack[t])]

\* Stack::current_instruction
current_instruction(t) ==
    LET frame == TopFrame(t)
        file == class_files[frame.class]
        code == IF frame.method_name = "<clinit>" THEN file.clinit ELSE file.run
    IN code[frame.pc]

Executing(t, op, phase) ==
    /\ Active(t, "execute", phase)
    /\ Len(stack[t]) > 0
    /\ current_instruction(t).op = op

\* the frames of t after the top frame pushed v and advanced to the next instruction
Pushed(t, v) ==
    [stack[t] EXCEPT ![Len(stack[t])] =
        [@ EXCEPT !.operand_stack = Append(@, v), !.pc = @ + 1]]

\* the frames of t after the top frame popped n operands and advanced
Popped(t, n) ==
    [stack[t] EXCEPT ![Len(stack[t])] =
        [@ EXCEPT !.operand_stack = SubSeq(@, 1, Len(@) - n), !.pc = @ + 1]]

\* a record of a getstatic: who read which class's field, the value read and
\* the flags of the class read at that moment
Read(by, class, value) ==
    [by |-> by, of |-> class.identifier, value |-> value,
     of_initialized |-> class.initialized, of_being_initialized |-> class.being_initialized]

\* JvmThread::get_static: resolve_field initializes the class, then the value
\* is read from the record in the table
get_static(t) ==
    LET c == current_instruction(t).class IN
    \/ /\ Executing(t, "getstatic", "fetch")
       /\ calls' = [calls EXCEPT ![t] = CallInitialize(t, "access", c)]
       /\ UNCHANGED <<stack, thread_error, reads>>
    \/ /\ Executing(t, "getstatic", "access")
       /\ IF c \in DOMAIN classes
          THEN LET field_value == classes[c].fields[class_files[c].field] IN
               /\ stack' = [stack EXCEPT ![t] = Pushed(t, field_value)]
               /\ reads' = reads \cup {Read(TopFrame(t).class, classes[c], field_value)}
               /\ calls' = [calls EXCEPT ![t] = At(t, "fetch")]
               /\ UNCHANGED thread_error
          ELSE /\ thread_error' = [thread_error EXCEPT ![t] = ErrNotInitialized]
               /\ UNCHANGED <<stack, reads, calls>>

\* JvmThread::put_static: resolve_field initializes the class, then the popped
\* value is stored into the record in the table
put_static(t) ==
    LET c == current_instruction(t).class
        operands == TopFrame(t).operand_stack
    IN
    \/ /\ Executing(t, "putstatic", "fetch")
       /\ calls' = [calls EXCEPT ![t] = CallInitialize(t, "access", c)]
       /\ UNCHANGED <<stack, thread_error, classes>>
    \/ /\ Executing(t, "putstatic", "access")
       /\ IF c \in DOMAIN classes
          THEN /\ classes' = [classes EXCEPT ![c].fields[class_files[c].field] =
                                 operands[Len(operands)]]
               /\ stack' = [stack EXCEPT ![t] = Popped(t, 1)]
               /\ calls' = [calls EXCEPT ![t] = At(t, "fetch")]
               /\ UNCHANGED thread_error
          ELSE /\ thread_error' = [thread_error EXCEPT ![t] = ErrNotInitialized]
               /\ UNCHANGED <<stack, classes, calls>>

\* Instruction::Iconst
iconst(t) ==
    /\ Executing(t, "iconst", "fetch")
    /\ stack' = [stack EXCEPT ![t] = Pushed(t, current_instruction(t).value)]

\* JvmThread::iadd, on operands whose sum is in the range of i32
iadd(t) ==
    LET operands == TopFrame(t).operand_stack
        value2 == operands[Len(operands)]
        value1 == operands[Len(operands) - 1]
    IN
    /\ Executing(t, "iadd", "fetch")
    /\ stack' = [stack EXCEPT ![t] =
                    [Popped(t, 2) EXCEPT ![Len(stack[t])].operand_stack =
                        Append(@, value1 + value2)]]

\* Instruction::Return of a method that is not synchronized: pop the frame
\* and leave execute
execute_return(t) ==
    /\ Executing(t, "return", "fetch")
    /\ stack' = [stack EXCEPT ![t] = SubSeq(@, 1, Len(@) - 1)]
    /\ calls' = [calls EXCEPT ![t] = Returned(t)]

\* the native Thread.start0: a new JvmThread sharing the loader, the class
\* table, the heap and the monitors runs run()V of the receiver's class
start0(t) ==
    LET c == current_instruction(t).class IN
    /\ Executing(t, "start0", "fetch")
    /\ thread_error[StartedThread] = NotStarted
    /\ thread_error' = [thread_error EXCEPT ![StartedThread] = NoError]
    /\ calls' = [calls EXCEPT ![StartedThread] = <<Call("run_method", c, "resolve")>>]
    /\ stack' = [stack EXCEPT ![t][Len(stack[t])].pc = @ + 1]

(***************************************************************************)
(* Specifications                                                          *)
(***************************************************************************)
\* no VM thread runs
ThreadsIdle ==
    /\ stack = [t \in VmThreads |-> <<>>]
    /\ current_thread_id = [t \in VmThreads |-> None]
    /\ thread_error = [t \in VmThreads |-> NotStarted]

\* no class is loaded
ClassesIdle ==
    /\ calls = [t \in VmThreads |-> <<>>]
    /\ classes = EmptyMap
    /\ loader_cache = {}
    /\ class_files = JdkFiles
    /\ main_class = NoClass
    /\ clinit_runs = [c \in DOMAIN class_files |-> 0]
    /\ reads = {}

\* no call has been made on the heap
NoHeapCall ==
    [fn |-> "none", thread |-> None, id |-> None, index |-> None,
     status |-> "none", value |-> None]

\* Heap::default
HeapInit ==
    /\ heap_current_id = 0
    /\ heap_items = EmptyMap
    /\ heap_poisoned = FALSE
    /\ heap_call = NoHeapCall
    /\ allocated = <<>>
    /\ last_stored = EmptyMap

\* the four Arc<Mutex<..>> fields of JvmThread
Mutexes == {"class_loader", "classes", "heap", "monitors"}

\* a thread that is in no operation
IdlePc == [op |-> "none", at |-> 0, phase |-> "idle"]

\* no thread holds a guard
LocksInit ==
    /\ guards = [t \in ThreadIds |-> {}]
    /\ lock_pc = [t \in ThreadIds |-> IdlePc]

\* a class file that is none
NoFile == [name |-> "none", major_version |-> 0, minor_version |-> 0, super_class |-> "none"]

\* no call of load has been made
NoLoad == [id |-> "none", status |-> "none", file |-> NoFile, error |-> "none", reads |-> <<>>]

\* BootstrapClassLoader::new with no sources
LoaderIdle ==
    /\ ldr_sources = <<>>
    /\ ldr_class_files = EmptyMap
    /\ ldr_call = NoLoad

\* no parsing function has been applied
NoApply == [fn |-> "none", form |-> "none", raw |-> <<>>, status |-> "none"]

\* no parsing function is in use
ParserIdle ==
    /\ pure_input = <<>>
    /\ pure_call = NoApply

\* main has not been entered
NoProcess == [pc |-> "none", status |-> None, diagnostic |-> "none"]

\* the components added to the VM's, not in use
\* no frame is looked at
NoFrame == [pc |-> 0, operand_stack |-> <<>>, local_variables |-> <<>>]
NoFrameCall == [op |-> "none", status |-> "Ok"]

FrameIdle ==
    /\ cur_frame = NoFrame
    /\ frame_call = NoFrameCall

OthersIdle ==
    /\ cli = NoProcess
    /\ FrameIdle

\* the components the monitor tables and the VM threads do not use, as constructed
RestIdle == HeapInit /\ LocksInit /\ LoaderIdle /\ ParserIdle /\ OthersIdle

\* the monitor tables under calls of enter and exit by two threads
Init == MonInit /\ ThreadsIdle /\ ClassesIdle /\ RestIdle

EnterObjectMonitor == \E t \in ThreadIds, h \in HeapIds : EnterObject(t, h)
ExitObjectMonitor == \E t \in ThreadIds, h \in HeapIds : ExitObject(t, h)
EnterClassMonitor == \E t \in ThreadIds, c \in MonitorClasses : EnterClass(t, c)
ExitClassMonitor == \E t \in ThreadIds, c \in MonitorClasses : ExitClass(t, c)
RootEnterObjectMonitor == \E t \in ThreadIds, h \in HeapIds : RootEnterObject(t, h)
RootExitObjectMonitor == \E t \in ThreadIds, h \in HeapIds : RootExitObject(t, h)

Next ==
    \/ EnterObjectMonitor
    \/ ExitObjectMonitor
    \/ EnterClassMonitor
    \/ ExitClassMonitor
    \/ RootEnterObjectMonitor
    \/ RootExitObjectMonitor

Spec == Init /\ [][Next]_vars

\* the VM threads invoking and returning from synchronized methods
SyncSpecInit == MonInit /\ SyncInit /\ ClassesIdle /\ RestIdle

SyncNext == InvokeVirtual \/ InvokeStatic \/ Return

SyncSpec == SyncSpecInit /\ [][SyncNext]_vars

\* the main thread initializing the classes of a jar
RunMain ==
    \E t \in VmThreads : run_main(t)
InitializeCheck ==
    \E t \in VmThreads : initialize_check(t)
InitializeLoad ==
    \E t \in VmThreads : initialize_load(t)
InitializeClassFields ==
    \E t \in VmThreads : initialize_class_fields(t)
InitializeInsert ==
    \E t \in VmThreads : initialize_insert(t)
InitializeSuper ==
    \E t \in VmThreads : initialize_super(t)
ExecuteClinit ==
    \E t \in VmThreads : execute_clinit(t)
InitializeFinish ==
    \E t \in VmThreads : initialize_finish(t)
ExecGetStatic ==
    \E t \in VmThreads :
        /\ get_static(t)
        /\ UNCHANGED <<mon_vars, current_thread_id, classes, loader_cache, class_files, rest_vars,
                       main_class, clinit_runs>>
ExecPutStatic ==
    \E t \in VmThreads :
        /\ put_static(t)
        /\ UNCHANGED <<mon_vars, current_thread_id, reads, loader_cache, class_files, rest_vars,
                       main_class, clinit_runs>>
ExecIconst ==
    \E t \in VmThreads :
        /\ iconst(t)
        /\ UNCHANGED <<mon_vars, current_thread_id, thread_error, init_vars, rest_vars>>
ExecIadd ==
    \E t \in VmThreads :
        /\ iadd(t)
        /\ UNCHANGED <<mon_vars, current_thread_id, thread_error, init_vars, rest_vars>>
ExecReturn ==
    \E t \in VmThreads :
        /\ execute_return(t)
        /\ UNCHANGED <<mon_vars, current_thread_id, thread_error, classes, loader_cache,
                       class_files, rest_vars, main_class, clinit_runs, reads>>
ExecStart0 ==
    \E t \in VmThreads :
        /\ start0(t)
        /\ UNCHANGED <<mon_vars, current_thread_id, classes, loader_cache, class_files, rest_vars,
                       main_class, clinit_runs, reads>>
RunMethod ==
    \E t \in VmThreads : run_method(t)

\* the jars whose classes one thread initializes
SequentialJars == {CycleFiles, DiamondFiles, ClassCycleFiles}

InitSpecInit == MonInit /\ InitInit(SequentialJars) /\ RestIdle

InitNext ==
    \/ RunMain
    \/ InitializeCheck
    \/ InitializeLoad
    \/ InitializeClassFields
    \/ InitializeInsert
    \/ InitializeSuper
    \/ ExecuteClinit
    \/ InitializeFinish
    \/ ExecGetStatic
    \/ ExecPutStatic
    \/ ExecIconst
    \/ ExecIadd
    \/ ExecReturn

InitSpec == InitSpecInit /\ [][InitNext]_vars

\* the thread of run_main runs until it ends
InitFairSpec == InitSpecInit /\ [][InitNext]_vars /\ WF_vars(InitNext)

\* the main thread and a thread it starts, sharing the class table
ThreadsSpecInit == MonInit /\ InitInit(SequentialJars \cup {StartFiles}) /\ RestIdle

ThreadsNext == InitNext \/ ExecStart0 \/ RunMethod

ThreadsSpec == ThreadsSpecInit /\ [][ThreadsNext]_vars

(***************************************************************************)
(* Properties of the monitor tables                                        *)
(***************************************************************************)
\* the table a call was made on, before and after the call
TableOf(table) ==
    IF table = "object" THEN object_monitors
    ELSE IF table = "class" THEN class_monitors
    ELSE root_object_monitors

TableAfter(table) ==
    IF table = "object" THEN object_monitors'
    ELSE IF table = "class" THEN class_monitors'
    ELSE root_object_monitors'

HeldOf(table) ==
    IF table = "object" THEN held.object
    ELSE IF table = "class" THEN held.class
    ELSE held.root

MonitorTables == {"object", "class", "root"}

\* C1: while a thread T has entered a monitor more often than it has exited
\* it, no enter of that monitor by another thread U succeeds: after every
\* enter that returned success, no thread other than the caller has
\* outstanding entries on the monitor.
C1_ExclusionUntilLastExit ==
    (mon_call.op = "enter" /\ mon_call.ret = Ok) =>
        \A t \in ThreadIds \ {mon_call.thread} :
            HeldOf(mon_call.table)[mon_call.key][t] = 0

\* C2: the table holds exactly the monitors that are currently held: a key is
\* in the table if and only if some thread has outstanding entries on it, and
\* then the owner is that thread and the count is the number of its
\* outstanding entries (at least 1).
C2_TableHoldsExactlyHeld ==
    \A table \in MonitorTables :
        \A key \in DOMAIN HeldOf(table) :
            LET holders == {t \in ThreadIds : HeldOf(table)[key][t] > 0} IN
            /\ key \in DOMAIN TableOf(table) <=> holders # {}
            /\ key \in DOMAIN TableOf(table) =>
                   /\ TableOf(table)[key].entry_count >= 1
                   /\ TableOf(table)[key].owner \in holders
                   /\ TableOf(table)[key].entry_count =
                          HeldOf(table)[key][TableOf(table)[key].owner]

\* the caller of the call made in this step owned the monitor before the call
CallerOwned ==
    /\ mon_call'.key \in DOMAIN TableOf(mon_call'.table)
    /\ TableOf(mon_call'.table)[mon_call'.key].owner = mon_call'.thread

\* C3: an exit by a thread that does not own the monitor (another thread owns
\* it, or it is not in the table) returns an error and leaves the monitor
\* tables unchanged.
C3_ExitByNonOwnerIsError ==
    [][(mon_call'.op = "exit" /\ ~CallerOwned) =>
          /\ mon_call'.ret \in {ErrIllegalMonitor, ErrNoMonitor}
          /\ UNCHANGED <<object_monitors, class_monitors, root_object_monitors>>]_vars

\* a thread has just failed to exit a monitor that another thread holds twice
C3_Witness ==
    /\ mon_call.op = "exit"
    /\ mon_call.ret = ErrIllegalMonitor
    /\ mon_call.key \in DOMAIN TableOf(mon_call.table)
    /\ TableOf(mon_call.table)[mon_call.key].owner \in ThreadIds \ {mon_call.thread}
    /\ TableOf(mon_call.table)[mon_call.key].entry_count = 2

\* C4: enter on a monitor that is not in the table creates it with the caller
\* as owner and count 1 and succeeds; enter by the owner adds exactly one to
\* the count and succeeds; enter by any other thread fails and changes
\* neither the owner nor the count.
C4_EnterCases ==
    [][mon_call'.op = "enter" =>
          LET key == mon_call'.key
              before == TableOf(mon_call'.table)
              after == TableAfter(mon_call'.table)
          IN
          /\ key \in DOMAIN after
          /\ IF key \notin DOMAIN before
             THEN /\ mon_call'.ret = Ok
                  /\ after[key] = [entry_count |-> 1, owner |-> mon_call'.thread]
             ELSE IF before[key].owner = mon_call'.thread
             THEN /\ mon_call'.ret = Ok
                  /\ after[key] = [entry_count |-> before[key].entry_count + 1,
                                   owner |-> mon_call'.thread]
             ELSE /\ mon_call'.ret = "false"
                  /\ after[key] = before[key]]_vars

\* a thread has just failed to enter a monitor that another thread entered twice
C4_Witness ==
    /\ mon_call.op = "enter"
    /\ mon_call.ret = "false"
    /\ TableOf(mon_call.table)[mon_call.key].owner \in ThreadIds \ {mon_call.thread}
    /\ TableOf(mon_call.table)[mon_call.key].entry_count = 2

(***************************************************************************)
(* Properties of synchronized methods                                      *)
(***************************************************************************)
\* the number of frames of t that are synchronized instance methods entered on h
RECURSIVE CountSync(_, _)
CountSync(frames, h) ==
    IF frames = <<>> THEN 0
    ELSE LET frame == Head(frames)
             method == Methods[frame.method_name]
         IN (IF method.synchronized /\ ~method.static /\ frame.object_ref = h THEN 1 ELSE 0)
            + CountSync(Tail(frames), h)

\* C5: a synchronized instance method entered recursively on one receiver
\* takes the receiver's monitor count to the depth of the recursion (2 for two
\* entries) and back to 0 across the returns, every return succeeds, and the
\* monitor is absent from the table once the last frame has returned.
C5_RecursiveSynchronized ==
    \A h \in HeapIds :
        /\ \A t \in VmThreads :
               /\ CountSync(stack[t], h) >= 1 =>
                      /\ h \in DOMAIN object_monitors
                      /\ object_monitors[h].owner = current_thread_id[t]
                      /\ object_monitors[h].entry_count = CountSync(stack[t], h)
               /\ thread_error[t] \notin {ErrNoMonitor, ErrIllegalMonitor}
        /\ (\A t \in VmThreads : CountSync(stack[t], h) = 0) => h \notin DOMAIN object_monitors

(***************************************************************************)
(* Properties of synchronized invocations                                  *)
(***************************************************************************)
\* the entries the thread has on the monitor of a key
EntriesOf(monitors, key, t) ==
    IF key \in DOMAIN monitors /\ owned_by(monitors[key], current_thread_id[t])
    THEN monitors[key].entry_count
    ELSE 0

\* the frames of synchronized methods that entered the monitor of class c:
\* static methods of c, and instance methods invoked on the class reference
RECURSIVE CountClassSync(_, _)
CountClassSync(frames, c) ==
    IF frames = <<>> THEN 0
    ELSE LET frame == Head(frames)
             method == Methods[frame.method_name]
         IN (IF /\ method.synchronized
                /\ frame.class = c
                /\ (method.static \/ frame.object_ref = None)
             THEN 1 ELSE 0)
            + CountClassSync(Tail(frames), c)

\* C14: every invocation of a synchronized method (on a heap object, on a
\* class reference, static, native) releases on return the monitor it
\* entered, so that the thread's entry count on the monitor is what it was
\* before the call: a running thread's entries on every monitor are the
\* entries of the synchronized frames still on its stack, and no return
\* fails to release.
C14_ReturnReleasesEntered ==
    \A t \in VmThreads :
        /\ thread_error[t] \notin {ErrNoObjectRef, ErrNoMonitor, ErrIllegalMonitor}
        /\ thread_error[t] = NoError =>
               /\ \A h \in HeapIds :
                      EntriesOf(object_monitors, h, t) = CountSync(stack[t], h)
               /\ \A c \in MonitorClasses :
                      EntriesOf(class_monitors, c, t) = CountClassSync(stack[t], c)

(***************************************************************************)
(* Properties of class initialization                                      *)
(***************************************************************************)
\* run_main has made its calls of initialize and they have returned
Done == thread_error[MainThread] = ErrRunMain

\* the classes named by the code of a method
Named(code) == {code[i].class : i \in DOMAIN code} \ {NoClass}

\* the classes whose initialization is triggered, directly or through super
\* classes and <clinit> code, by the initialization of the classes in found
RECURSIVE Triggered(_, _)
Triggered(files, found) ==
    LET supers == {files[c].super_class : c \in found} \ {NoClass}
        named == UNION {Named(files[c].clinit) : c \in found}
        more == found \cup supers \cup named
    IN IF more = found THEN found ELSE Triggered(files, more)

\* the classes run_main initializes
Needed == Triggered(class_files, {JavaLangClass, JavaLangObject, JavaLangThread, main_class})

C7_RecursiveInitializeReturns ==
    [][\A t \in VmThreads :
          (/\ Active(t, "initialize", "check")
           /\ Top(t).identifier \in DOMAIN classes
           /\ \/ classes[Top(t).identifier].being_initialized
              \/ classes[Top(t).identifier].initialized
           /\ calls'[t] # calls[t])
          => /\ calls'[t] = Returned(t)
             /\ UNCHANGED <<classes, loader_cache, clinit_runs, stack>>]_vars

\* a <clinit> has read a field of a class whose own <clinit> was still running:
\* the initialize made for that read returned without initializing again
C7_Witness ==
    \E r \in reads :
        /\ r.by # r.of
        /\ r.of_being_initialized
        /\ ~r.of_initialized
        /\ clinit_runs[r.of] = 1
        /\ \E t \in VmThreads : \E i \in DOMAIN calls[t] :
               calls[t][i] = Call("initialize", r.of, "finish")

\* C8: in every run of initialize(C) the record of C, with being_initialized
\* set, is in the class table before the initialization of C's super class
\* starts and before C's <clinit> starts: every initialize that has called
\* into its super class or its <clinit> has its class in the table.
C8_InsertedBeforeSuperAndClinit ==
    \A t \in VmThreads : \A i \in DOMAIN calls[t] :
        (calls[t][i].fn = "initialize" /\ i < Len(calls[t])) =>
            /\ calls[t][i].identifier \in DOMAIN classes
            /\ classes[calls[t][i].identifier].being_initialized

\* the super class of a class is being initialized while the class has a
\* record that is not yet initialized
C8_Witness ==
    \E t \in VmThreads : \E i \in DOMAIN calls[t] :
        /\ i < Len(calls[t])
        /\ calls[t][i].fn = "initialize"
        /\ calls[t][i + 1].fn = "initialize"
        /\ calls[t][i + 1].identifier = class_files[calls[t][i].identifier].super_class
        /\ calls[t][i].identifier \in DOMAIN classes
        /\ ~classes[calls[t][i].identifier].initialized

\* C9: a record with initialized = true has being_initialized = true, and once
\* a record is initialized its flags never change again, whatever the threads
\* that call initialize do.
C9_InitializedIsFinal ==
    /\ [](\A c \in DOMAIN classes : classes[c].initialized => classes[c].being_initialized)
    /\ [][\A c \in DOMAIN classes :
             classes[c].initialized =>
                 /\ c \in DOMAIN classes'
                 /\ classes'[c].initialized
                 /\ classes'[c].being_initialized]_vars

\* the class of a cycle that run_main initializes, and the other one
First == main_class
Second == IF main_class = "A" THEN "B" ELSE "A"

\* C10 as stated: in the cycle both initializations complete and the class
\* that entered initialization first reads the other's default value from a
\* record that is not yet initialized.
C10_FirstReadsDefault ==
    class_files = CycleFiles =>
        /\ Done => /\ {First, Second} \subseteq DOMAIN classes
                   /\ classes[First].initialized
                   /\ classes[Second].initialized
        /\ \A r \in reads :
               r.by = First => /\ r.of = Second
                               /\ r.of_being_initialized
                               /\ ~r.of_initialized
                               /\ r.value = DefaultValue

\* what the first and the second class of the cycle read
FirstRead ==
    [by |-> First, of |-> Second, value |-> DefaultValue + 1,
     of_initialized |-> TRUE, of_being_initialized |-> TRUE]
SecondRead ==
    [by |-> Second, of |-> First, value |-> DefaultValue,
     of_initialized |-> FALSE, of_being_initialized |-> TRUE]

\* C10 as amended: in the cycle both initializations complete; the class that
\* entered initialization second reads the first's default value from a record
\* that is being initialized and not yet initialized, and the first class
\* reads the second's value after the second's <clinit> from an initialized
\* record.
C10_SecondReadsDefault ==
    class_files = CycleFiles =>
        /\ reads \subseteq {FirstRead, SecondRead}
        /\ Done => /\ {First, Second} \subseteq DOMAIN classes
                   /\ classes[First].initialized
                   /\ classes[Second].initialized
                   /\ reads = {FirstRead, SecondRead}

\* the cycle has been initialized and both reads were made
C10_Witness ==
    /\ class_files = CycleFiles
    /\ Done
    /\ classes[First].fields["x"] = DefaultValue + 2
    /\ classes[Second].fields["x"] = DefaultValue + 1
    /\ Cardinality(reads) = 2


(***************************************************************************)
(* Heap (src/jvm/src/heap.rs) and its callers in src/jvm/src/thread.rs     *)
(***************************************************************************)
\* ReferenceValue::Null
NullRef == [kind |-> "Null", id |-> None]

\* PrimitiveArrayValue::Int and ::Boolean
PInt(v) == [tag |-> "Int", val |-> v]
PBoolean(v) == [tag |-> "Boolean", val |-> IF v THEN 1 ELSE 0]
\* PrimitiveArrayValue::Char, ::Byte and ::Short
PChar(v) == [tag |-> "Char", val |-> v]
PByte(v) == [tag |-> "Byte", val |-> v]
PShort(v) == [tag |-> "Short", val |-> v]

\* the array types allocated here
PrimitiveArrayTypes == {"Int", "Boolean"}

\* PrimitiveArrayType::default
PrimitiveArrayType_default(array_type) ==
    CASE array_type = "Boolean" -> PBoolean(FALSE)
      [] array_type = "Char" -> PChar(0)
      [] array_type = "Byte" -> PByte(0)
      [] array_type = "Short" -> PShort(0)
      [] OTHER -> PInt(0)

\* vec![value; count]
Repeat(value, count) == [i \in 1..count |-> value]

\* HeapItem::Object, ::ReferenceArray and ::PrimitiveArray
ObjectItem(class_identifier, fields) ==
    [kind |-> "Object", class |-> class_identifier, fields |-> fields]
ReferenceArrayItem(object_id, class, values) ==
    [kind |-> "ReferenceArray", object_id |-> object_id, class |-> class, values |-> values]
PrimitiveArrayItem(array_type, values) ==
    [kind |-> "PrimitiveArray", array_type |-> array_type, values |-> values]

\* the Heap value held in the variables
TheHeap == [current_id |-> heap_current_id, items |-> heap_items]

\* the heap after an allocation, with the id it returns
Allocated(heap, id) == [heap |-> heap, id |-> id]

\* an allocation that does not advance current_id
Heap_insert_same_id(heap, heap_item) ==
    Allocated([current_id |-> heap.current_id,
               items |-> MapInsert(heap.items, heap.current_id, heap_item)],
              heap.current_id)

\* the three statements every allocate function ends with: insert the item
\* at current_id, increment current_id, return the id
Heap_insert(heap, heap_item) ==
    Allocated([current_id |-> heap.current_id + 1,
               items |-> MapInsert(heap.items, heap.current_id, heap_item)],
              heap.current_id)

\* Heap::allocate
Heap_allocate(heap, class_identifier, fields) ==
    Heap_insert(heap, ObjectItem(class_identifier, fields))

\* Heap::allocate_array
Heap_allocate_array(heap, class, length) ==
    Heap_insert(heap, ReferenceArrayItem(heap.current_id, class, Repeat(NullRef, length)))

\* Heap::allocate_primitive_array
Heap_allocate_primitive_array(heap, array_type, values) ==
    Heap_insert(heap, PrimitiveArrayItem(array_type, values))

\* Heap::allocate_default_primitive_array
Heap_allocate_default_primitive_array(heap, array_type, count) ==
    Heap_allocate_primitive_array(heap, array_type,
                                  Repeat(PrimitiveArrayType_default(array_type), count))

\* the outcome of a store or a load: Ok with a value, Err, or a panic
HeapOk(items, value) == [items |-> items, status |-> "Ok", value |-> value]
HeapErr(items, error) == [items |-> items, status |-> "Err", value |-> error]
HeapPanic(items) == [items |-> items, status |-> "panic", value |-> "index out of bounds"]

ErrUnknownObject == "unknown object"
ErrNotReferenceArray == "is not a reference array"
ErrNotArray == "is not a array"
ErrLockPoisoned == "Lock poisoned"

\* values[index] = value on a Vec: index counts from 0
VecSet(values, index, value) == [values EXCEPT ![index + 1] = value]

\* a store of an array kind that writes the slot after the one asked for
store_into_array_next_slot(items, id, index, value, kind) ==
    IF id \notin DOMAIN items THEN HeapErr(items, ErrUnknownObject)
    ELSE IF items[id].kind # kind THEN HeapErr(items, ErrNotReferenceArray)
    ELSE IF index + 1 >= Len(items[id].values) THEN HeapPanic(items)
    ELSE HeapOk([items EXCEPT ![id].values = VecSet(@, index + 1, value)], None)

\* Heap::store_into_reference_array and Heap::store_into_primitive_array:
\* the two differ in the kind of item they match
store_into_array(items, id, index, value, kind) ==
    IF id \notin DOMAIN items THEN HeapErr(items, ErrUnknownObject)
    ELSE IF items[id].kind # kind THEN HeapErr(items, ErrNotReferenceArray)
    ELSE IF index >= Len(items[id].values) THEN HeapPanic(items)
    ELSE HeapOk([items EXCEPT ![id].values = VecSet(@, index, value)], None)

\* Heap::store_into_reference_array
Heap_store_into_reference_array(items, id, index, value) ==
    store_into_array(items, id, index, value, "ReferenceArray")

\* Heap::store_into_primitive_array
Heap_store_into_primitive_array(items, id, index, value) ==
    store_into_array(items, id, index, value, "PrimitiveArray")

\* Heap::get_reference_array
Heap_get_reference_array(items, id) ==
    IF id \notin DOMAIN items THEN HeapErr(items, ErrUnknownObject)
    ELSE IF items[id].kind # "ReferenceArray" THEN HeapErr(items, ErrNotArray)
    ELSE HeapOk(items, items[id].values)

\* Heap::get_primitive_array
Heap_get_primitive_array(items, id) ==
    IF id \notin DOMAIN items THEN HeapErr(items, ErrUnknownObject)
    ELSE IF items[id].kind # "PrimitiveArray" THEN HeapErr(items, ErrNotArray)
    ELSE HeapOk(items, items[id].values)

\* the classes, lengths, indices and values the callers of the heap use
HeapClasses == {"A"}
Indices == 0..MaxLen
AllocIds == 0..MaxAlloc
ReferenceValues == {NullRef, HeapItem(0)}
PrimitiveValues == {PInt(7)}
GivenValues == {<<PInt(1), PInt(2)>>}

\* the record of a call: its arguments are kept when it succeeded
HeapCall(fn, t, id, index, status, value) ==
    IF status = "Ok"
    THEN [fn |-> fn, thread |-> t, id |-> id, index |-> index, status |-> status, value |-> value]
    ELSE [fn |-> fn, thread |-> t, id |-> None, index |-> None, status |-> status, value |-> None]

\* the callers in thread.rs take the heap mutex first: a poisoned mutex is an error
LockPoisoned(fn, t, id, index) ==
    /\ heap_poisoned
    /\ heap_call' = HeapCall(fn, t, id, index, "Err", ErrLockPoisoned)
    /\ UNCHANGED <<heap_current_id, heap_items, heap_poisoned, allocated, last_stored>>

\* the slots of a new array hold the values it was allocated with
InitialSlots(stored, id, heap_item) ==
    IF heap_item.kind = "Object" THEN stored
    ELSE [k \in DOMAIN stored \cup {<<id, i - 1>> : i \in DOMAIN heap_item.values} |->
             IF k \in DOMAIN stored THEN stored[k] ELSE heap_item.values[k[2] + 1]]

\* a caller of one of the allocate functions
AllocateWith(fn, t, result) ==
    /\ Len(allocated) < MaxAlloc
    /\ \/ LockPoisoned(fn, t, None, None)
       \/ /\ ~heap_poisoned
          /\ heap_current_id' = result.heap.current_id
          /\ heap_items' = result.heap.items
          /\ allocated' = Append(allocated, result.id)
          /\ heap_call' = HeapCall(fn, t, result.id, None, "Ok", result.id)
          /\ last_stored' = InitialSlots(last_stored, result.id, result.heap.items[result.id])
          /\ UNCHANGED heap_poisoned
    /\ UNCHANGED <<vm_vars, other_vars, lock_vars, loader_vars, parser_vars>>

\* JvmThread::allocate
Allocate(t, class_identifier) ==
    AllocateWith("allocate", t, Heap_allocate(TheHeap, class_identifier, [x |-> 0]))

\* JvmThread::allocate_array
AllocateArray(t, class, length) ==
    AllocateWith("allocate_array", t, Heap_allocate_array(TheHeap, class, length))

\* JvmThread::allocate_primitive_array
AllocatePrimitiveArray(t, array_type, values) ==
    AllocateWith("allocate_primitive_array", t,
                 Heap_allocate_primitive_array(TheHeap, array_type, values))

\* JvmThread::allocate_default_primitive_array
AllocateDefaultPrimitiveArray(t, array_type, count) ==
    AllocateWith("allocate_default_primitive_array", t,
                 Heap_allocate_default_primitive_array(TheHeap, array_type, count))

\* a caller of one of the store functions: a panic inside poisons the mutex
StoreWith(fn, t, id, index, value, result) ==
    /\ \/ LockPoisoned(fn, t, id, index)
       \/ /\ ~heap_poisoned
          /\ heap_items' = result.items
          /\ heap_poisoned' = (result.status = "panic")
          /\ heap_call' = HeapCall(fn, t, id, index, result.status, value)
          /\ last_stored' = IF result.status = "Ok"
                            THEN MapInsert(last_stored, <<id, index>>, value)
                            ELSE last_stored
          /\ UNCHANGED <<heap_current_id, allocated>>
    /\ UNCHANGED <<vm_vars, other_vars, lock_vars, loader_vars, parser_vars>>

\* JvmThread::store_into_reference_array
StoreIntoReferenceArray(t, id, index, value) ==
    StoreWith("store_into_reference_array", t, id, index, value,
              Heap_store_into_reference_array(heap_items, id, index, value))

\* JvmThread::store_into_primitive_array
StoreIntoPrimitiveArray(t, id, index, value) ==
    StoreWith("store_into_primitive_array", t, id, index, value,
              Heap_store_into_primitive_array(heap_items, id, index, value))

\* a caller of one of the get functions
LoadWith(fn, t, id, result) ==
    /\ \/ LockPoisoned(fn, t, id, None)
       \/ /\ ~heap_poisoned
          /\ heap_call' = HeapCall(fn, t, id, None, result.status, result.value)
          /\ UNCHANGED <<heap_current_id, heap_items, heap_poisoned, allocated, last_stored>>
    /\ UNCHANGED <<vm_vars, other_vars, lock_vars, loader_vars, parser_vars>>

\* JvmThread::get_reference_array
GetReferenceArray(t, id) ==
    LoadWith("get_reference_array", t, id, Heap_get_reference_array(heap_items, id))

\* JvmThread::get_primitive_array
GetPrimitiveArray(t, id) ==
    LoadWith("get_primitive_array", t, id, Heap_get_primitive_array(heap_items, id))

\* the threads allocating, storing into arrays and loading them
HeapAllocate ==
    \E t \in ThreadIds, c \in HeapClasses : Allocate(t, c)
HeapAllocateArray ==
    \E t \in ThreadIds, c \in HeapClasses : AllocateArray(t, c, MaxLen)
HeapAllocatePrimitiveArray ==
    \E t \in ThreadIds, values \in GivenValues : AllocatePrimitiveArray(t, "Int", values)
HeapAllocateDefaultPrimitiveArray ==
    \E t \in ThreadIds, a \in PrimitiveArrayTypes :
        AllocateDefaultPrimitiveArray(t, a, MaxLen)
HeapStoreIntoReferenceArray ==
    \E t \in ThreadIds, id \in AllocIds, i \in Indices, v \in ReferenceValues :
        StoreIntoReferenceArray(t, id, i, v)
HeapStoreIntoPrimitiveArray ==
    \E t \in ThreadIds, id \in AllocIds, i \in Indices, v \in PrimitiveValues :
        StoreIntoPrimitiveArray(t, id, i, v)
HeapGetReferenceArray ==
    \E t \in ThreadIds, id \in AllocIds : GetReferenceArray(t, id)
HeapGetPrimitiveArray ==
    \E t \in ThreadIds, id \in AllocIds : GetPrimitiveArray(t, id)

VmIdle == MonInit /\ ThreadsIdle /\ ClassesIdle

HeapSpecInit == VmIdle /\ HeapInit /\ LocksInit /\ LoaderIdle /\ ParserIdle /\ OthersIdle

HeapNext ==
    \/ HeapAllocate
    \/ HeapAllocateArray
    \/ HeapAllocatePrimitiveArray
    \/ HeapAllocateDefaultPrimitiveArray
    \/ HeapStoreIntoReferenceArray
    \/ HeapStoreIntoPrimitiveArray
    \/ HeapGetReferenceArray
    \/ HeapGetPrimitiveArray

HeapSpec == HeapSpecInit /\ [][HeapNext]_vars

\* the array with the id given has no slot at the index
OutOfBounds(id, index) ==
    /\ id \in DOMAIN heap_items
    /\ heap_items[id].kind \in {"ReferenceArray", "PrimitiveArray"}
    /\ index >= Len(heap_items[id].values)

\* C27: a store into an array at an index outside its bounds ends as an
\* error of the storing thread: the heap holds what it held and the other
\* threads can go on using it.
C27_OutOfBoundsStoreIsError ==
    [][\A t \in ThreadIds, id \in AllocIds, index \in Indices :
          (/\ ~heap_poisoned
           /\ OutOfBounds(id, index)
           /\ \/ \E v \in ReferenceValues : StoreIntoReferenceArray(t, id, index, v)
              \/ \E v \in PrimitiveValues : StoreIntoPrimitiveArray(t, id, index, v))
              => /\ heap_call'.status = "Err"
                 /\ heap_items' = heap_items
                 /\ ~heap_poisoned']_vars

\* C11: every allocation, of any kind and from any thread, returns an id
\* strictly greater than every id returned before (so none is returned
\* twice), and no heap item is ever removed or moved to another id: the ids
\* in the heap are exactly the ids returned, and an id once in the heap stays.
C11_FreshIds ==
    /\ [](/\ \A i, j \in DOMAIN allocated : i < j => allocated[i] < allocated[j]
          /\ DOMAIN heap_items = {allocated[i] : i \in DOMAIN allocated})
    /\ [][\A id \in DOMAIN heap_items :
             /\ id \in DOMAIN heap_items'
             /\ heap_items'[id].kind = heap_items[id].kind]_vars

\* two allocations of different kinds were made by different threads
C11_Witness ==
    /\ Len(allocated) = MaxAlloc
    /\ \E a, b \in DOMAIN heap_items : heap_items[a].kind # heap_items[b].kind
    /\ heap_call.thread = 2
    /\ heap_call.fn = "allocate_default_primitive_array"

\* the loads of arrays
Loads == {"get_reference_array", "get_primitive_array"}
Stores == {"store_into_reference_array", "store_into_primitive_array"}

\* C12: a store into an array at an index within bounds is what every later
\* load of that array returns at that index until the next store to the
\* index, and the store changes no other index and no other heap item.
C12_StoreThenLoad ==
    /\ [](heap_call.fn \in Loads /\ heap_call.status = "Ok" =>
             \A k \in DOMAIN last_stored :
                 k[1] = heap_call.id => heap_call.value[k[2] + 1] = last_stored[k])
    /\ [][heap_call'.fn \in Stores /\ heap_call'.status = "Ok" =>
             /\ heap_items'[heap_call'.id].values[heap_call'.index + 1] = heap_call'.value
             /\ DOMAIN heap_items' = DOMAIN heap_items
             /\ \A id \in DOMAIN heap_items :
                    IF id = heap_call'.id
                    THEN /\ Len(heap_items'[id].values) = Len(heap_items[id].values)
                         /\ \A i \in DOMAIN heap_items[id].values :
                                i # heap_call'.index + 1 =>
                                    heap_items'[id].values[i] = heap_items[id].values[i]
                    ELSE heap_items'[id] = heap_items[id]]_vars

\* an array of two slots was stored into at index 1 and then loaded, and
\* another array exists
C12_Witness ==
    /\ heap_call.fn \in Loads
    /\ heap_call.status = "Ok"
    /\ <<heap_call.id, 1>> \in DOMAIN last_stored
    /\ heap_call.value[2] = last_stored[<<heap_call.id, 1>>]
    /\ heap_call.value[2] \in {HeapItem(0), PInt(7)}
    /\ Cardinality(DOMAIN heap_items) = 2


(***************************************************************************)
(* The shared mutexes of JvmThread (src/jvm/src/thread.rs)                 *)
(***************************************************************************)
\* the functions of JvmThread that call lock(), each with the mutex it locks
LockSites ==
    [maybe_class |-> "classes",
     class |-> "classes",
     insert_class |-> "classes",
     finished_initialization |-> "classes",
     put_static |-> "classes",
     new_thread_object |-> "classes",
     heap_get |-> "heap",
     allocate |-> "heap",
     heap_set_field |-> "heap",
     load |-> "class_loader",
     enter_object_monitor |-> "monitors",
     exit_object_monitor |-> "monitors"]

\* the lock sites the steps of the interpreter go through, in order
Operations ==
    [initialize |-> <<"maybe_class", "load", "class", "insert_class", "finished_initialization">>,
     get_static |-> <<"maybe_class", "class">>,
     put_static |-> <<"maybe_class", "put_static">>,
     new_thread_object |-> <<"allocate", "heap_set_field", "class", "new_thread_object">>,
     invoke_virtual |-> <<"maybe_class", "class", "heap_get", "enter_object_monitor">>,
     return |-> <<"class", "exit_object_monitor">>]

\* the lock site a thread is at
SiteOf(t) == Operations[lock_pc[t].op][lock_pc[t].at]

\* the guard of a lock site outlives the function: it is never dropped
drop_guard_leaked(guard_set, mutex) == guard_set

\* the MutexGuard of a lock site is a local: it is dropped when the function
\* returns, with Ok or with Err
drop_guard(guard_set, mutex) == guard_set \ {mutex}

\* the thread starts a step of the interpreter
BeginOperation(t, op) ==
    /\ lock_pc[t].phase = "idle"
    /\ lock_pc' = [lock_pc EXCEPT ![t] = [op |-> op, at |-> 1, phase |-> "call"]]
    /\ UNCHANGED <<vm_vars, other_vars, heap_vars, loader_vars, parser_vars, guards>>

\* lock(): the thread takes the mutex of the site once no thread holds it
Acquire(t) ==
    /\ lock_pc[t].phase = "call"
    /\ \A u \in ThreadIds : LockSites[SiteOf(t)] \notin guards[u]
    /\ guards' = [guards EXCEPT ![t] = @ \cup {LockSites[SiteOf(t)]}]
    /\ lock_pc' = [lock_pc EXCEPT ![t].phase = "held"]
    /\ UNCHANGED <<vm_vars, other_vars, heap_vars, loader_vars, parser_vars>>

\* the function of the site returns Ok: the step goes on to its next site
ReturnOk(t) ==
    /\ lock_pc[t].phase = "held"
    /\ guards' = [guards EXCEPT ![t] = drop_guard(@, LockSites[SiteOf(t)])]
    /\ lock_pc' = [lock_pc EXCEPT ![t] =
                      IF lock_pc[t].at < Len(Operations[lock_pc[t].op])
                      THEN [@ EXCEPT !.at = @ + 1, !.phase = "call"]
                      ELSE IdlePc]
    /\ UNCHANGED <<vm_vars, other_vars, heap_vars, loader_vars, parser_vars>>

\* the function of the site returns Err: the step ends with the error
ReturnErr(t) ==
    /\ lock_pc[t].phase = "held"
    /\ guards' = [guards EXCEPT ![t] = drop_guard(@, LockSites[SiteOf(t)])]
    /\ lock_pc' = [lock_pc EXCEPT ![t] = IdlePc]
    /\ UNCHANGED <<vm_vars, other_vars, heap_vars, loader_vars, parser_vars>>

LockBegin == \E t \in ThreadIds, op \in DOMAIN Operations : BeginOperation(t, op)
LockAcquire == \E t \in ThreadIds : Acquire(t)
LockReturnOk == \E t \in ThreadIds : ReturnOk(t)
LockReturnErr == \E t \in ThreadIds : ReturnErr(t)

LockSpecInit == VmIdle /\ HeapInit /\ LocksInit /\ LoaderIdle /\ ParserIdle /\ OthersIdle

LockNext == LockBegin \/ LockAcquire \/ LockReturnOk \/ LockReturnErr

LockSpec == LockSpecInit /\ [][LockNext]_vars

\* the thread is at a lock() whose mutex another thread holds
Waiting(t) ==
    /\ lock_pc[t].phase = "call"
    /\ \E u \in ThreadIds : LockSites[SiteOf(t)] \in guards[u]

\* C13: no thread ever holds more than one of the four shared mutexes, and a
\* thread that is at a lock() holds none (each guard is released before the
\* next acquisition); so a thread that waits for a mutex waits for a thread
\* that is not itself waiting, and no set of threads is deadlocked.
C13_OneMutexAtATime ==
    \A t \in ThreadIds :
        /\ Cardinality(guards[t]) <= 1
        /\ lock_pc[t].phase = "call" => guards[t] = {}
        /\ Waiting(t) => \E u \in ThreadIds \ {t} :
                             /\ LockSites[SiteOf(t)] \in guards[u]
                             /\ lock_pc[u].phase = "held"

\* a thread waits for the class table while another holds it, and the waiting
\* thread has already taken and released the class loader's mutex
C13_Witness ==
    \E t, u \in ThreadIds :
        /\ Waiting(t)
        /\ lock_pc[t].op = "initialize"
        /\ lock_pc[t].at = 3
        /\ guards[u] = {"classes"}


(***************************************************************************)
(* BootstrapClassLoader (src/jvm/src/loader.rs)                            *)
(***************************************************************************)
\* number of sources of the class loader
NumSources == 2

\* ClassFile: the name of this_class, the version, the name of super_class
\* ("none" for super_class = 0)
LoaderClassFile(name, major_version, minor_version, super_class) ==
    [name |-> name, major_version |-> major_version, minor_version |-> minor_version,
     super_class |-> super_class]

\* what read_class of a source returns for a class: Err because the class is
\* not in the source, Err from another I/O error, bytes that do not parse,
\* or the bytes of a class file
Absent == [kind |-> "absent", file |-> NoFile]
IoError == [kind |-> "io_error", file |-> NoFile]
Garbage == [kind |-> "garbage", file |-> NoFile]
Bytes(file) == [kind |-> "bytes", file |-> file]

\* the classes asked for: A extends B
LoaderIds == {"A", "B"}
SuperOf(id) == IF id = "A" THEN "B" ELSE "none"

\* the versions class files come with
Versions == {<<61, 0>>, <<52, 0>>, <<61, 3>>, <<52, 3>>}

\* what a source can hold for a class
Outcomes(id) ==
    {Absent, IoError}
    \cup (IF id = "A" THEN {Garbage} ELSE {})
    \cup {Bytes(LoaderClassFile(id, v[1], v[2], SuperOf(id))) :
              v \in IF id = "A" THEN Versions ELSE {<<61, 0>>, <<52, 3>>}}

\* the result of load: the loader's cache after it, Ok with the class file or
\* Err with the error, and the read_class calls made, in order
LoadOk(cache, file, made) ==
    [class_files |-> cache, status |-> "Ok", file |-> file, error |-> "none",
     reads |-> made]
LoadErr(cache, error, made) ==
    [class_files |-> cache, status |-> "Err", file |-> NoFile, error |-> error,
     reads |-> made]

ErrClassFormat == "should throw ClassFormatError"
ErrUnsupportedVersion == "unsupported class file version"
ErrNameMismatch == "identifier does not match class file"
ErrNotFound == "class not found"

\* BootstrapClassLoader::check_version
check_version(class_file) ==
    IF class_file.major_version # 61 /\ class_file.minor_version # 0
    THEN ErrUnsupportedVersion
    ELSE Ok

\* BootstrapClassLoader::check_name
check_name(class_file, identifier) ==
    IF class_file.name # identifier THEN ErrNameMismatch ELSE Ok

\* the look into the cache never finds the class file
cached_never(cache, identifier) == FALSE

\* self.class_files.get(identifier) at the head of load
cached(cache, identifier) == identifier \in DOMAIN cache

\* the super class is not looked at
super_class_skipped(class_file) == "none"

\* class_file.super_class and its class name in load, "none" for index 0
super_class_name(class_file) == class_file.super_class

RECURSIVE load_from(_, _, _, _, _)
RECURSIVE load(_, _, _)

\* the loop over the sources in load, from source i on
load_from(sources, cache, identifier, i, made) ==
    IF i > Len(sources) THEN LoadErr(cache, ErrNotFound, made)
    ELSE LET read == sources[i][identifier]
             now == Append(made, <<i, identifier>>)
         IN IF read.kind \in {"absent", "io_error"}
            THEN load_from(sources, cache, identifier, i + 1, now)
            ELSE IF read.kind = "garbage" THEN LoadErr(cache, ErrClassFormat, now)
            ELSE IF check_version(read.file) # Ok
            THEN LoadErr(cache, check_version(read.file), now)
            ELSE IF check_name(read.file, identifier) # Ok
            THEN LoadErr(cache, check_name(read.file, identifier), now)
            ELSE IF super_class_name(read.file) # "none"
            THEN LET super == load(sources, cache, super_class_name(read.file))
                 IN IF super.status # "Ok"
                    THEN LoadErr(super.class_files, super.error, now \o super.reads)
                    ELSE LoadOk(MapInsert(super.class_files, identifier, read.file),
                                read.file, now \o super.reads)
            ELSE LoadOk(MapInsert(cache, identifier, read.file), read.file, now)

\* BootstrapClassLoader::load
load(sources, cache, identifier) ==
    IF cached(cache, identifier)
    THEN LoadOk(cache, cache[identifier], <<>>)
    ELSE load_from(sources, cache, identifier, 1, <<>>)

\* BootstrapClassLoader::new: every source holds something for every class
LoaderInit ==
    /\ ldr_sources \in [1..NumSources -> {f \in [LoaderIds -> UNION {Outcomes(id) : id \in LoaderIds}] :
                                             \A id \in LoaderIds : f[id] \in Outcomes(id)}]
    /\ ldr_class_files = EmptyMap
    /\ ldr_call = NoLoad

\* a call of load
Load(identifier) ==
    LET result == load(ldr_sources, ldr_class_files, identifier)
    IN /\ ldr_class_files' = result.class_files
       /\ ldr_call' = [id |-> identifier, status |-> result.status, file |-> result.file,
                       error |-> result.error, reads |-> result.reads]
       /\ UNCHANGED <<vm_vars, other_vars, heap_vars, lock_vars, parser_vars, ldr_sources>>

LoaderLoad == \E identifier \in LoaderIds : Load(identifier)

LoaderSpecInit == VmIdle /\ HeapInit /\ LocksInit /\ LoaderInit /\ ParserIdle /\ OthersIdle

LoaderNext == LoaderLoad

LoaderSpec == LoaderSpecInit /\ [][LoaderNext]_vars

\* C15: once load(id) has succeeded, every later load(id) returns the same
\* class file from the cache without reading a source, and a load that fails
\* adds nothing to the cache for id: a successful load leaves id cached with
\* the file it returned, cached files are never changed or removed, a load
\* of a cached id returns the cached file with no read_class call, and after
\* a failed load id is not cached.
C15_CachedLoad ==
    [][/\ \A id \in DOMAIN ldr_class_files :
              id \in DOMAIN ldr_class_files' /\ ldr_class_files'[id] = ldr_class_files[id]
       /\ ldr_call'.status = "Ok" =>
              /\ ldr_call'.id \in DOMAIN ldr_class_files'
              /\ ldr_class_files'[ldr_call'.id] = ldr_call'.file
       /\ ldr_call'.id \in DOMAIN ldr_class_files =>
              /\ ldr_call'.status = "Ok"
              /\ ldr_call'.file = ldr_class_files[ldr_call'.id]
              /\ ldr_call'.reads = <<>>
              /\ ldr_class_files' = ldr_class_files
       /\ ldr_call'.status = "Err" => ldr_call'.id \notin DOMAIN ldr_class_files']_vars

\* A was loaded, together with its super class B, and then loaded again from
\* the cache
C15_Witness ==
    /\ ldr_call.id = "A"
    /\ ldr_call.status = "Ok"
    /\ ldr_call.reads = <<>>
    /\ DOMAIN ldr_class_files = {"A", "B"}
    /\ ldr_call.file = ldr_class_files["A"]

\* C23: whenever a class file is in the cache, the class file of its super
\* class (and so of its whole super-class chain) is in the cache too; a class
\* enters the cache only in a load that has its super class cached by then,
\* and a load in which loading the super class fails caches nothing.
C23_SuperChainCached ==
    /\ [](\A id \in DOMAIN ldr_class_files :
              ldr_class_files[id].super_class # "none" =>
                  ldr_class_files[id].super_class \in DOMAIN ldr_class_files)
    /\ [][/\ \A id \in DOMAIN ldr_class_files' \ DOMAIN ldr_class_files :
                 ldr_class_files'[id].super_class # "none" =>
                     ldr_class_files'[id].super_class \in DOMAIN ldr_class_files'
          /\ ldr_call'.status = "Err" =>
                 \A id \in DOMAIN ldr_class_files' \ DOMAIN ldr_class_files :
                     id # ldr_call'.id /\ ldr_class_files'[id].super_class = "none"]_vars

\* A was loaded from the sources in a call that loaded its super class B first
C23_Witness ==
    /\ ldr_call.id = "A"
    /\ ldr_call.status = "Ok"
    /\ \E i \in DOMAIN ldr_call.reads : ldr_call.reads[i][2] = "B"
    /\ DOMAIN ldr_class_files = {"A", "B"}
    /\ ldr_class_files["A"].super_class = "B"

\* the class file the last load got from its sources for the class asked
\* for, NoFile when it got none
FileRead ==
    LET found == {i \in DOMAIN ldr_call.reads :
                     /\ ldr_call.reads[i][2] = ldr_call.id
                     /\ ldr_sources[ldr_call.reads[i][1]][ldr_call.id].kind = "bytes"}
    IN IF found = {} THEN NoFile
       ELSE ldr_sources[ldr_call.reads[CHOOSE i \in found : TRUE][1]][ldr_call.id].file

\* C16: load fails with the unsupported-class-version error for every class
\* file whose version is not exactly 61.0, and no such class file is cached.
C16_VersionEnforced ==
    /\ \A id \in DOMAIN ldr_class_files :
           /\ ldr_class_files[id].major_version = 61
           /\ ldr_class_files[id].minor_version = 0
    /\ (FileRead # NoFile /\ <<FileRead.major_version, FileRead.minor_version>> # <<61, 0>>) =>
           /\ ldr_call.status = "Err"
           /\ ldr_call.error = ErrUnsupportedVersion

\* C17: load tries the sources in order; a source that reports the class as
\* absent is skipped and the next one is tried, and a source that fails with
\* another I/O error makes load fail with no later source consulted.
C17_IoErrorStopsLoad ==
    \A i \in DOMAIN ldr_call.reads :
        LET source == ldr_call.reads[i][1]
            id == ldr_call.reads[i][2]
            next == {j \in DOMAIN ldr_call.reads : j > i /\ ldr_call.reads[j][2] = id}
        IN /\ ldr_sources[source][id].kind = "absent" /\ source < Len(ldr_sources) =>
                  <<source + 1, id>> \in {ldr_call.reads[j] : j \in next}
           /\ ldr_sources[source][id].kind = "io_error" =>
                  /\ ldr_call.status = "Err"
                  /\ next = {}


(***************************************************************************)
(* ClassIdentifier (src/common/src/lib.rs)                                 *)
(* Strings are sequences of one-character strings.                         *)
(***************************************************************************)
\* largest number of package segments of a class
MaxPackageDepth == 2

\* str.replace(from, to) for one character by one character
Replace(str, from, to) == [i \in DOMAIN str |-> IF str[i] = from THEN to ELSE str[i]]

\* str.replace(ch, "")
Remove(str, ch) == SelectSeq(str, LAMBDA c : c # ch)

\* str.chars().skip_while(|c| c in set).collect()
RECURSIVE SkipWhile(_, _)
SkipWhile(str, set) ==
    IF str # <<>> /\ Head(str) \in set THEN SkipWhile(Tail(str), set) ELSE str

\* str.split(ch).collect(): the segments between the separators
RECURSIVE Split(_, _)
Split(str, ch) ==
    IF \A i \in DOMAIN str : str[i] # ch THEN <<str>>
    ELSE LET at == CHOOSE i \in DOMAIN str :
                       str[i] = ch /\ \A j \in 1..(i - 1) : str[j] # ch
         IN <<SubSeq(str, 1, at - 1)>> \o Split(SubSeq(str, at + 1, Len(str)), ch)

\* parts.join(ch)
RECURSIVE Join(_, _)
Join(parts, ch) ==
    IF parts = <<>> THEN <<>>
    ELSE IF Len(parts) = 1 THEN parts[1]
    ELSE parts[1] \o <<ch>> \o Join(Tail(parts), ch)

\* ClassIdentifier::new
ClassIdentifier_new(package, name) == [package |-> package, name |-> name]

JavaLang == <<"j", "a", "v", "a", ".", "l", "a", "n", "g">>

\* the arms of the match in ClassIdentifier::parse
PrimitiveNames ==
    [B |-> <<"B", "y", "t", "e">>,
     C |-> <<"C", "h", "a", "r", "a", "c", "t", "e", "r">>,
     D |-> <<"D", "o", "u", "b", "l", "e">>,
     F |-> <<"F", "l", "o", "a", "t">>,
     I |-> <<"I", "n", "t", "e", "g", "e", "r">>,
     J |-> <<"L", "o", "n", "g">>,
     S |-> <<"S", "h", "o", "r", "t">>,
     Z |-> <<"B", "o", "o", "l", "e", "a", "n">>]

\* ClassIdentifier::parse
ClassIdentifier_parse(raw) ==
    LET dotted == Remove(Replace(raw, "/", "."), ";")
        stripped == SkipWhile(dotted, {"L", "["})
        parts == Split(stripped, ".")
    IN IF Len(stripped) = 1 /\ stripped[1] \in DOMAIN PrimitiveNames
       THEN ClassIdentifier_new(JavaLang, PrimitiveNames[stripped[1]])
       ELSE ClassIdentifier_new(Join(SubSeq(parts, 1, Len(parts) - 1), "."),
                                parts[Len(parts)])

\* PathBuf::push of a relative component
PathPush(path, component) ==
    IF path = <<>> THEN component
    ELSE IF path[Len(path)] = "/" THEN path \o component
    ELSE path \o <<"/">> \o component

RECURSIVE PathPushAll(_, _)
PathPushAll(path, components) ==
    IF components = <<>> THEN path
    ELSE PathPushAll(PathPush(path, Head(components)), Tail(components))

DotClass == <<".", "c", "l", "a", "s", "s">>

\* ClassIdentifier::path
ClassIdentifier_path(identifier) ==
    PathPush(PathPushAll(<<>>, Split(identifier.package, ".")), identifier.name \o DotClass)

\* the segments class and package names are made of
Segments == {<<"a">>, <<"L", "a">>, <<"I">>}

\* the classes parsed: a sequence of package segments and a name
RECURSIVE SegmentSeqs(_)
SegmentSeqs(n) ==
    IF n = 0 THEN {<<>>}
    ELSE SegmentSeqs(n - 1)
         \cup {Append(q, g) : q \in {x \in SegmentSeqs(n - 1) : Len(x) = n - 1}, g \in Segments}
ParsedClasses ==
    {[segments |-> q, name |-> g] : q \in SegmentSeqs(MaxPackageDepth), g \in Segments}

\* the internal name of a class in a class file: java/lang/System
InternalName(class) == Join(Append(class.segments, class.name), "/")

\* the four texts a class is written as
Forms == {"slashed", "dotted", "descriptor", "array"}
Written(class, form) ==
    CASE form = "slashed" -> InternalName(class)
      [] form = "dotted" -> Join(Append(class.segments, class.name), ".")
      [] form = "descriptor" -> <<"L">> \o InternalName(class) \o <<";">>
      [] form = "array" -> <<"[", "L">> \o InternalName(class) \o <<";">>

\* the state of the old and new components that a parsing function does not use
NoParsing == VmIdle /\ HeapInit /\ LocksInit /\ LoaderIdle /\ OthersIdle

ParseSpecInit ==
    /\ NoParsing
    /\ pure_input \in ParsedClasses
    /\ pure_call = NoApply

\* ClassIdentifier::parse applied to one of the texts of the class
Parse(form) ==
    /\ pure_call.fn = "none"
    /\ pure_call' = [fn |-> "ClassIdentifier::parse", form |-> form,
                     raw |-> Written(pure_input, form), status |-> "Ok",
                     result |-> ClassIdentifier_parse(Written(pure_input, form))]
    /\ UNCHANGED <<vm_vars, other_vars, heap_vars, lock_vars, loader_vars, pure_input>>

ParseForm == \E form \in Forms : Parse(form)

ParseNext == ParseForm

ParseSpec == ParseSpecInit /\ [][ParseNext]_vars

\* C18: for every class, of any package depth and any name, the slashed, the
\* dotted, the 'L...;' and the '[...' text all parse to the same identifier,
\* whose name is the last segment and whose package is the other segments,
\* and whose path is the class's internal name (followed by .class).
C18_ParseForms ==
    pure_call.fn = "ClassIdentifier::parse" =>
        /\ pure_call.result.name = pure_input.name
        /\ pure_call.result.package = Join(pure_input.segments, ".")
        /\ ClassIdentifier_path(pure_call.result) = InternalName(pure_input) \o DotClass

(***************************************************************************)
(* Method descriptors (src/parser/src/class/descriptor.rs).                *)
(***************************************************************************)
\* largest number of parameters of a method descriptor
MaxParams == 2

\* FieldType::BaseType
BaseType(letter) == [kind |-> "BaseType", base |-> letter]

\* FieldType::ObjectType
ObjectType(class_name) == [kind |-> "ObjectType", class_name |-> class_name]

\* FieldType::ComponentType
ComponentType(field_type) == [kind |-> "ComponentType", of |-> field_type]

\* ReturnDescriptor::Void
Void == [kind |-> "Void"]

\* the letters of the base types
BaseLetters == {"B", "C", "D", "F", "I", "J", "S", "Z"}

\* results of the parsing functions: Ok(value), Err(..), or a panic of a slice
\* taken out of range
ParsedOk(value) == [status |-> "Ok", value |-> value]
ParsedErr == [status |-> "Err", value |-> <<>>]
ParsedPanic == [status |-> "Panic", value |-> <<>>]

\* FieldType::new
RECURSIVE FieldType_new(_)
FieldType_new(raw) ==
    IF raw = <<>> THEN ParsedPanic
    ELSE IF raw[1] \in BaseLetters THEN ParsedOk(BaseType(raw[1]))
    ELSE IF raw[1] = "L"
    THEN IF Len(raw) < 2 THEN ParsedPanic
         ELSE ParsedOk(ObjectType(SubSeq(raw, 2, Len(raw) - 1)))
    ELSE IF raw[1] = "["
    THEN LET component == FieldType_new(Tail(raw))
         IN IF component.status = "Ok"
            THEN ParsedOk(ComponentType(component.value))
            ELSE component
    ELSE ParsedErr

\* FieldType::length
RECURSIVE FieldType_length(_)
FieldType_length(field_type) ==
    IF field_type.kind = "BaseType" THEN 1
    ELSE IF field_type.kind = "ObjectType" THEN Len(field_type.class_name) + 2
    ELSE FieldType_length(field_type.of) + 1

\* the loop of MethodDescriptor::new over what is left of the parenthesised
\* part, given the parameters pushed so far
RECURSIVE parameters_loop(_, _)
parameters_loop(raw_parameter_descriptor, parameters) ==
    LET parameter == FieldType_new(raw_parameter_descriptor)
    IN IF parameter.status # "Ok" THEN parameter
       ELSE IF FieldType_length(parameter.value) = Len(raw_parameter_descriptor)
       THEN ParsedOk(Append(parameters, parameter.value))
       ELSE parameters_loop(
                SubSeq(raw_parameter_descriptor,
                       FieldType_length(parameter.value) + 1,
                       Len(raw_parameter_descriptor)),
                Append(parameters, parameter.value))

\* raw.find(")"): the index of the first ')' counted from 0, or -1
Find(raw, ch) ==
    IF \A i \in DOMAIN raw : raw[i] # ch THEN -1
    ELSE (CHOOSE i \in DOMAIN raw :
              raw[i] = ch /\ \A j \in 1..(i - 1) : raw[j] # ch) - 1

\* MethodDescriptor::new
MethodDescriptor_new(raw) ==
    LET end_of_parameter_descriptor == Find(raw, ")")
        raw_parameter_descriptor == SubSeq(raw, 2, end_of_parameter_descriptor)
        parameters == IF raw_parameter_descriptor = <<>> THEN ParsedOk(<<>>)
                      ELSE parameters_loop(raw_parameter_descriptor, <<>>)
        raw_return_descriptor ==
            SubSeq(raw, end_of_parameter_descriptor + 2, Len(raw))
        return_descriptor == IF raw_return_descriptor = <<"V">> THEN ParsedOk(Void)
                             ELSE FieldType_new(raw_return_descriptor)
    IN IF end_of_parameter_descriptor = -1 THEN ParsedErr
       ELSE IF end_of_parameter_descriptor = 0 THEN ParsedPanic
       ELSE IF parameters.status # "Ok" THEN parameters
       ELSE IF return_descriptor.status # "Ok" THEN return_descriptor
       ELSE ParsedOk([return_descriptor |-> return_descriptor.value,
                      parameters |-> parameters.value])

\* the field types the methods of the run are declared with: base types,
\* class types and arrays of either
ElementTypes == {BaseType("I"), BaseType("D"), ObjectType(<<"a", "/", "T">>)}
DeclaredTypes == ElementTypes \cup {ComponentType(e) : e \in ElementTypes}

\* the parameter lists of at most n declared types
RECURSIVE ParameterLists(_)
ParameterLists(n) ==
    IF n = 0 THEN {<<>>}
    ELSE ParameterLists(n - 1) \cup
         {Append(l, f) : l \in {k \in ParameterLists(n - 1) : Len(k) = n - 1},
                         f \in DeclaredTypes}

\* the declared methods
DeclaredMethods ==
    [parameters : ParameterLists(MaxParams),
     return_descriptor : DeclaredTypes \cup {Void}]

\* the field descriptor the class file holds for a field type
RECURSIVE FieldDescriptorOf(_)
FieldDescriptorOf(field_type) ==
    IF field_type.kind = "Void" THEN <<"V">>
    ELSE IF field_type.kind = "BaseType" THEN <<field_type.base>>
    ELSE IF field_type.kind = "ObjectType"
    THEN <<"L">> \o field_type.class_name \o <<";">>
    ELSE <<"[">> \o FieldDescriptorOf(field_type.of)

\* the field descriptors of a parameter list, one after the other
RECURSIVE ParameterDescriptorOf(_)
ParameterDescriptorOf(parameters) ==
    IF parameters = <<>> THEN <<>>
    ELSE FieldDescriptorOf(Head(parameters)) \o ParameterDescriptorOf(Tail(parameters))

\* the method descriptor the class file holds for a declared method
MethodDescriptorOf(method) ==
    <<"(">> \o ParameterDescriptorOf(method.parameters) \o <<")">>
        \o FieldDescriptorOf(method.return_descriptor)

DescriptorSpecInit ==
    /\ NoParsing
    /\ pure_input \in DeclaredMethods
    /\ pure_call = NoApply

\* MethodDescriptor::new applied to the descriptor of the declared method
NewMethodDescriptor ==
    /\ pure_call.fn = "none"
    /\ LET raw == MethodDescriptorOf(pure_input)
           parsed == MethodDescriptor_new(raw)
       IN pure_call' = [fn |-> "MethodDescriptor::new", form |-> "method",
                        raw |-> raw, status |-> parsed.status,
                        result |-> parsed.value]
    /\ UNCHANGED <<vm_vars, other_vars, heap_vars, lock_vars, loader_vars, pure_input>>

DescriptorNext == NewMethodDescriptor

DescriptorSpec == DescriptorSpecInit /\ [][DescriptorNext]_vars

\* C19: MethodDescriptor::new yields exactly one parameter per field
\* descriptor between the parentheses, in order, for any mix of base, object
\* and array types, and the text after ')' as the return descriptor (V = void).
C19_OneParameterPerDescriptor ==
    pure_call.fn = "MethodDescriptor::new" =>
        /\ pure_call.status = "Ok"
        /\ pure_call.result.parameters = pure_input.parameters
        /\ pure_call.result.return_descriptor = pure_input.return_descriptor

(***************************************************************************)
(* The constant pool (src/parser/src/class/constant_pool.rs).  A reader is *)
(* the sequence of the bytes not yet read.                                 *)
(***************************************************************************)
\* largest constant_pool_count of a class file
MaxPoolCount == 4

\* u16::MAX + 1
U16 == 65536

\* the tags of CpInfo::new
UTF8_TAG == 1
INTEGER_TAG == 3
FLOAT_TAG == 4
LONG_TAG == 5
CLASS_TAG == 7
STRING_TAG == 8
FIELD_REF_TAG == 9
METHOD_REF_TAG == 10
INTERFACE_METHOD_REF_TAG == 11
NAME_AND_TYPE_TAG == 12
METHOD_HANDLE_TAG == 15
METHOD_TYPE_TAG == 16
INVOKE_DYNAMIC_TAG == 18

\* the tag the class-file format gives a double entry; CpInfo::new has no arm
\* for it
DOUBLE_TAG == 6

\* CpInfo::Reserved
Reserved == [kind |-> "Reserved"]

\* a CpInfo with one payload
CpInfo1(kind, value) == [kind |-> kind, value |-> value]

\* a CpInfo with two payloads
CpInfo2(kind, first, second) == [kind |-> kind, first |-> first, second |-> second]

\* results of a read: Ok(value) with the reader after it, or Err(..)
ReadOk(value, r) == [status |-> "Ok", value |-> value, r |-> r]
ReadErr(r) == [status |-> "Err", value |-> <<>>, r |-> r]

\* uN::from_be_bytes
RECURSIVE from_be_bytes(_)
from_be_bytes(buf) ==
    IF buf = <<>> THEN 0
    ELSE from_be_bytes(SubSeq(buf, 1, Len(buf) - 1)) * 256 + buf[Len(buf)]

\* Read::read_exact of the next length bytes
read_exact(r, length) ==
    IF Len(r) < length THEN ReadErr(r)
    ELSE ReadOk(SubSeq(r, 1, length), SubSeq(r, length + 1, Len(r)))

\* util::u1, u2, u4, u8, f4: the next bytes as a number
uN(r, length) ==
    LET buf == read_exact(r, length)
    IN IF buf.status = "Ok" THEN ReadOk(from_be_bytes(buf.value), buf.r) ELSE buf

\* util::utf8: the next length bytes as a String (the texts read are ASCII,
\* which String::from_utf8 accepts; any other byte is taken as not UTF-8)
utf8(r, length) ==
    LET buf == read_exact(r, length)
    IN IF buf.status = "Ok" /\ \E i \in DOMAIN buf.value : buf.value[i] > 127
       THEN ReadErr(buf.r)
       ELSE buf

\* ReferenceKind::new
ReferenceKind_new(value) ==
    IF value \in 1..9 THEN [status |-> "Ok", value |-> value]
    ELSE [status |-> "Err", value |-> <<>>]

\* the arms of CpInfo::new that read one number of the given length
OneField ==
    (INTEGER_TAG :> <<"Integer", 4>>) @@ (FLOAT_TAG :> <<"Float", 4>>) @@
    (LONG_TAG :> <<"Long", 8>>) @@ (CLASS_TAG :> <<"Class", 2>>) @@
    (STRING_TAG :> <<"String", 2>>) @@ (METHOD_TYPE_TAG :> <<"MethodType", 2>>)

\* the arms of CpInfo::new that read two u2
TwoIndices ==
    (FIELD_REF_TAG :> "FieldRef") @@ (METHOD_REF_TAG :> "MethodRef") @@
    (INTERFACE_METHOD_REF_TAG :> "InterfaceMethodRef") @@
    (NAME_AND_TYPE_TAG :> "NameAndType") @@
    (INVOKE_DYNAMIC_TAG :> "InvokeDynamic")

\* CpInfo::new
CpInfo_new(r) ==
    LET tag == uN(r, 1)
    IN IF tag.status # "Ok" THEN tag
       ELSE IF tag.value = UTF8_TAG
       THEN LET length == uN(tag.r, 2)
            IN IF length.status # "Ok" THEN length
               ELSE LET content == utf8(length.r, length.value)
                    IN IF content.status # "Ok" THEN content
                       ELSE ReadOk(CpInfo1("Utf8", content.value), content.r)
       ELSE IF tag.value \in DOMAIN OneField
       THEN LET number == uN(tag.r, OneField[tag.value][2])
            IN IF number.status # "Ok" THEN number
               ELSE ReadOk(CpInfo1(OneField[tag.value][1], number.value), number.r)
       ELSE IF tag.value \in DOMAIN TwoIndices
       THEN LET first == uN(tag.r, 2)
                second == uN(first.r, 2)
            IN IF first.status # "Ok" THEN first
               ELSE IF second.status # "Ok" THEN second
               ELSE ReadOk(CpInfo2(TwoIndices[tag.value], first.value, second.value),
                           second.r)
       ELSE IF tag.value = METHOD_HANDLE_TAG
       THEN LET kind_byte == uN(tag.r, 1)
                reference_kind == ReferenceKind_new(kind_byte.value)
                reference_index == uN(kind_byte.r, 2)
            IN IF kind_byte.status # "Ok" THEN kind_byte
               ELSE IF reference_kind.status # "Ok" THEN ReadErr(kind_byte.r)
               ELSE IF reference_index.status # "Ok" THEN reference_index
               ELSE ReadOk(CpInfo2("MethodHandle", reference_kind.value,
                                   reference_index.value), reference_index.r)
       ELSE ReadErr(tag.r)

\* the loop of ConstantPool::new; overflow_checks says whether the build
\* panics on integer overflow (debug) or wraps (release)
RECURSIVE pool_loop(_, _, _, _, _)
pool_loop(r, count, i, infos, overflow_checks) ==
    IF i = count THEN ReadOk(infos, r)
    ELSE LET cp_info == CpInfo_new(r)
             step == IF cp_info.value.kind = "Long" THEN 2 ELSE 1
             pushed == IF step = 2 THEN infos \o <<cp_info.value, Reserved>>
                       ELSE Append(infos, cp_info.value)
         IN IF cp_info.status # "Ok" THEN cp_info
            ELSE IF overflow_checks /\ i + step >= U16
            THEN [status |-> "Panic", value |-> <<>>, r |-> cp_info.r]
            ELSE pool_loop(cp_info.r, count, (i + step) % U16, pushed,
                           overflow_checks)

\* ConstantPool::new
ConstantPool_new(r, count, overflow_checks) ==
    IF overflow_checks /\ count = 0
    THEN [status |-> "Panic", value |-> <<>>, r |-> r]
    ELSE pool_loop(r, (count - 1) % U16, 0, <<Reserved>>, overflow_checks)

\* the entries of the class files of the run, as the class-file format has
\* them: a double is an entry of the format with no CpInfo of its own
FormatEntries ==
    {CpInfo1("Utf8", <<97>>), CpInfo1("Integer", 7), CpInfo1("Class", 1),
     CpInfo1("Long", 9), CpInfo1("Double", 3)}

\* long and double entries take two indices of the pool
Slots(entry) == IF entry.kind \in {"Long", "Double"} THEN 2 ELSE 1

\* the number of indices the entries take
RECURSIVE SlotsOf(_)
SlotsOf(entries) ==
    IF entries = <<>> THEN 0 ELSE Slots(Head(entries)) + SlotsOf(Tail(entries))

\* the sequences of entries that take exactly n indices
RECURSIVE EntriesOfSlots(_)
EntriesOfSlots(n) ==
    IF n < 0 THEN {}
    ELSE IF n = 0 THEN {<<>>}
    ELSE UNION {{Append(l, e) : l \in EntriesOfSlots(n - Slots(e))} :
                e \in FormatEntries}

\* the number as length bytes, big-endian
RECURSIVE to_be_bytes(_, _)
to_be_bytes(number, length) ==
    IF length = 0 THEN <<>>
    ELSE Append(to_be_bytes(number \div 256, length - 1), number % 256)

\* the bytes of an entry in the class file
EntryBytes(entry) ==
    IF entry.kind = "Utf8"
    THEN <<UTF8_TAG>> \o to_be_bytes(Len(entry.value), 2) \o entry.value
    ELSE IF entry.kind = "Integer" THEN <<INTEGER_TAG>> \o to_be_bytes(entry.value, 4)
    ELSE IF entry.kind = "Class" THEN <<CLASS_TAG>> \o to_be_bytes(entry.value, 2)
    ELSE IF entry.kind = "Long" THEN <<LONG_TAG>> \o to_be_bytes(entry.value, 8)
    ELSE <<DOUBLE_TAG>> \o to_be_bytes(entry.value, 8)

\* the bytes of the entries, one after the other
RECURSIVE PoolBytes(_)
PoolBytes(entries) ==
    IF entries = <<>> THEN <<>>
    ELSE EntryBytes(Head(entries)) \o PoolBytes(Tail(entries))

\* the access flags that follow the constant pool in the class file
AccessFlagBytes == <<0, 33>>

\* the class files of the run: constant_pool_count and the entries; besides
\* the pools of the format (the entries take count - 1 indices), a count of 0
\* and pools whose last entry is a long or double at the last index
ClassFilePools ==
    UNION {{[count |-> n, entries |-> l] : l \in EntriesOfSlots(n - 1)} :
           n \in 1..MaxPoolCount}
    \cup {[count |-> 0, entries |-> <<>>]}
    \cup UNION {{[count |-> n, entries |-> l] :
                   l \in {k \in EntriesOfSlots(n) : Slots(k[Len(k)]) = 2}} :
                n \in 1..MaxPoolCount}

\* the pool is one of the class-file format
WellFormedPool(pool) == pool.count >= 1 /\ SlotsOf(pool.entries) = pool.count - 1

\* the class-file index of the j-th entry
IndexOfEntry(entries, j) == 1 + SlotsOf(SubSeq(entries, 1, j - 1))

PoolSpecInit ==
    /\ NoParsing
    /\ pure_input \in ClassFilePools
    /\ pure_call = NoApply

\* ConstantPool::new applied to the class file's bytes from its constant pool on
NewConstantPool ==
    /\ pure_call.fn = "none"
    /\ \E overflow_checks \in BOOLEAN :
          LET raw == PoolBytes(pure_input.entries) \o AccessFlagBytes
              parsed == ConstantPool_new(raw, pure_input.count, overflow_checks)
          IN pure_call' = [fn |-> "ConstantPool::new", form |-> "bytes",
                           raw |-> raw, status |-> parsed.status,
                           result |-> parsed.value]
    /\ UNCHANGED <<vm_vars, other_vars, heap_vars, lock_vars, loader_vars, pure_input>>

PoolNext == NewConstantPool

PoolSpec == PoolSpecInit /\ [][PoolNext]_vars

\* infos is the pool of the entries for constant_pool_count = n: n slots,
\* slot 0 reserved, every entry at its class-file index, each long and each
\* double followed by a reserved slot
PoolLayout(infos, entries, n) ==
    /\ Len(infos) = n
    /\ infos[1] = Reserved
    /\ \A j \in DOMAIN entries :
          LET index == IndexOfEntry(entries, j)
          IN /\ index + Slots(entries[j]) <= Len(infos)
             /\ infos[index + 1] = entries[j]
             /\ Slots(entries[j]) = 2 => infos[index + 2] = Reserved

\* C20: ConstantPool::new reads every constant pool of the class-file format,
\* long and double entries included, and after it succeeds for
\* constant_pool_count = n the pool has exactly n slots, slot 0 is reserved,
\* every entry sits at its class-file index, and each long and each double
\* entry is followed by one reserved slot.
C20_PoolSlots ==
    pure_call.fn = "ConstantPool::new" =>
        /\ WellFormedPool(pure_input) => pure_call.status = "Ok"
        /\ pure_call.status = "Ok" =>
               PoolLayout(pure_call.result, pure_input.entries, pure_input.count)

(***************************************************************************)
(* The command line (src/cli/src/main.rs): main opens the jar, runs the VM *)
(* on it and ends the process.                                             *)
(***************************************************************************)
\* exit statuses of the process: main returning Ok(()), main returning Err
\* (Termination of Result), clap rejecting the arguments
EXIT_SUCCESS == 0
EXIT_FAILURE == 1
EXIT_USAGE == 2

\* the process at a place of main, not yet ended
InMain(pc) == [pc |-> pc, status |-> None, diagnostic |-> "none"]

\* the process ended with a status, having written the diagnostic
ProcessExited(status, diagnostic) == [pc |-> "exited", status |-> status, diagnostic |-> diagnostic]

\* what the VM run has returned to main: the result of the main thread
\* ("running" until it has ended)
run_jar == thread_error[MainThread]

\* the VM run has returned Ok
RunOk == run_jar = ExitedNormally

\* the VM run has returned an error
RunErr == run_jar \notin {NoError, NotStarted, ExitedNormally}

\* main up to jvm::run_jar: the arguments are parsed and the jar is opened
main_start ==
    /\ cli.pc = "main"
    /\ \/ cli' = ProcessExited(EXIT_USAGE, "usage")
       \/ cli' = ProcessExited(EXIT_FAILURE, "Error: file")
       \/ cli' = InMain("run_jar")
    /\ UNCHANGED <<vm_vars, heap_vars, lock_vars, loader_vars, parser_vars, frame_vars>>

\* the match of main on what jvm::run_jar has returned
main_match ==
    /\ cli.pc = "run_jar"
    /\ RunOk \/ RunErr
    /\ cli' = IF RunOk THEN ProcessExited(EXIT_SUCCESS, "none")
              ELSE ProcessExited(EXIT_SUCCESS, "jvm error")
    /\ UNCHANGED <<vm_vars, heap_vars, lock_vars, loader_vars, parser_vars, frame_vars>>

\* the VM runs while main is in jvm::run_jar
main_run_jar == cli.pc = "run_jar" /\ InitNext

CliSpecInit ==
    /\ MonInit /\ InitInit(SequentialJars)
    /\ HeapInit /\ LocksInit /\ LoaderIdle /\ ParserIdle
    /\ cli = InMain("main")
    /\ FrameIdle

CliNext == main_start \/ main_run_jar \/ main_match

CliSpec == CliSpecInit /\ [][CliNext]_vars

\* C21: the process exits with a non-zero status and a diagnostic whenever
\* the VM run has returned an error, and with 0 only when the program has
\* completed.
C21_ExitStatus ==
    cli.pc = "exited" =>
        /\ RunErr => cli.status # EXIT_SUCCESS /\ cli.diagnostic # "none"
        /\ cli.status = EXIT_SUCCESS => RunOk

(***************************************************************************)
(* Static fields with a ConstantValue (JvmThread::initialize_static_fields *)
(* and put_static, src/jvm/src/thread.rs).                                 *)
(***************************************************************************)
\* class A { static final int X = 7; static [final] int y; int z;
\*           static { y = 5; } }
\* class B extends A { static final long X = <the item>; static int w;
\*                     static { w = A.y + 1; } }
StaticFiles(y_flags, item) ==
    [c \in {"A", "B"} |->
        IF c = "A"
        THEN ClassFileOf(JavaLangObject,
                         <<Field("X", {"static", "final"}, ConstantItem("Integer", 7)),
                           Field("y", y_flags, NoConstant),
                           Field("z", {}, NoConstant)>>,
                         "y", SetsFive("A"), <<>>)
        ELSE ClassFileOf("A",
                         <<Field("w", {"static"}, NoConstant),
                           Field("X", {"static", "final"}, item)>>,
                         "w", ReadsOne("B", "A"), <<>>)] @@ JdkFiles

\* the jars with y final and with y not final, and with the ConstantValue of
\* B.X naming a long item and naming a class item
StaticJars ==
    {StaticFiles(y_flags, item) :
        y_flags \in {{"static"}, {"static", "final"}},
        item \in {ConstantItem("Long", 9), ConstantItem("Class", 1)}}

\* Class::get_static_field_value on the record of the class table
get_static_field_value(class, name) == class.fields[name]

StaticsSpecInit == MonInit /\ InitInit(StaticJars) /\ RestIdle

StaticsNext == InitNext

StaticsSpec == StaticsSpecInit /\ [][StaticsNext]_vars

\* initialize(A) has returned
InitializedA == "A" \in DOMAIN classes /\ classes["A"].initialized

\* C22: after initialize of the class with static final int X = 7 and a
\* <clinit> that stores 5 into its other static field y (final or not), the
\* record of the class table returns 7 for X and 5 for y.
C22_ConstantAndClinitWrite ==
    InitializedA =>
        /\ {"X", "y"} \subseteq DOMAIN classes["A"].fields
        /\ get_static_field_value(classes["A"], "X") = 7
        /\ get_static_field_value(classes["A"], "y") = 5

\* initialize(A) has returned for the class whose y is not final
C22_Witness ==
    /\ InitializedA
    /\ "final" \notin class_files["A"].fields[2].access_flags
    /\ clinit_runs["A"] = 1

(***************************************************************************)
(* Frames: the PC, the operand stack and the local variables of the frame  *)
(* a thread executes (src/jvm/src/stack.rs), and one turn of the dispatch  *)
(* loop of JvmThread::execute (src/jvm/src/thread.rs).                     *)
(***************************************************************************)
\* the dispatch loop is followed while the PC is at most MaxPc, on operand
\* stacks of at most MaxOperands values
MaxPc == 8
MaxOperands == 2

\* FrameValue
FvReserved == [kind |-> "Reserved"]
FvInt(v) == [kind |-> "Int", int |-> v]
FvLong(v) == [kind |-> "Long", long |-> v]
FvReference(r) == [kind |-> "Reference", reference |-> r]

FrameOk(frame) == [status |-> "Ok", frame |-> frame, error |-> "none"]
FrameErr(frame, error) == [status |-> "Err", frame |-> frame, error |-> error]

\* Frame::offset_pc
offset_pc(frame, offset) ==
    IF offset < 0
    THEN IF -offset > frame.pc
         THEN FrameErr(frame, "pc cannot be negative")
         ELSE FrameOk([frame EXCEPT !.pc = @ + offset])
    ELSE FrameOk([frame EXCEPT !.pc = @ + offset])

\* Frame::push_operand
push_operand(frame, operand) ==
    FrameOk([frame EXCEPT !.operand_stack = Append(@, operand)])

IntBranches1 == {"ifeq", "ifne", "iflt", "ifge", "ifgt", "ifle"}
IntBranches2 == {"if_icmpeq", "if_icmpne", "if_icmplt", "if_icmpge", "if_icmpgt", "if_icmple"}
ReferenceBranches1 == {"ifnull", "ifnonnull"}
ReferenceBranches2 == {"if_acmpeq", "if_acmpne"}
BranchOpcodes == IntBranches1 \cup IntBranches2 \cup ReferenceBranches1 \cup ReferenceBranches2

\* how many operands a branch opcode pops, and the FrameValue they must be
BranchOperands(op) == IF op \in IntBranches1 \cup ReferenceBranches1 THEN 1 ELSE 2
BranchKind(op) == IF op \in IntBranches1 \cup IntBranches2 THEN "Int" ELSE "Reference"

\* the comparison each of if_eq .. if_non_null makes on the operands it has
\* popped, given in the order they were pushed
condition(op, operands) ==
    CASE op = "ifeq" -> operands[1].int = 0
      [] op = "ifne" -> operands[1].int # 0
      [] op = "iflt" -> operands[1].int < 0
      [] op = "ifge" -> operands[1].int >= 0
      [] op = "ifgt" -> operands[1].int > 0
      [] op = "ifle" -> operands[1].int =< 0
      [] op = "if_icmpeq" -> operands[1].int = operands[2].int
      [] op = "if_icmpne" -> operands[1].int # operands[2].int
      [] op = "if_icmplt" -> operands[1].int < operands[2].int
      [] op = "if_icmpge" -> operands[1].int >= operands[2].int
      [] op = "if_icmpgt" -> operands[1].int > operands[2].int
      [] op = "if_icmple" -> operands[1].int =< operands[2].int
      [] op = "if_acmpeq" -> operands[1].reference = operands[2].reference
      [] op = "if_acmpne" -> operands[1].reference # operands[2].reference
      [] op = "ifnull" -> operands[1].reference = NullRef
      [] op = "ifnonnull" -> operands[1].reference # NullRef

\* the operands a branch opcode pops from the frame, in the order pushed
BranchPopped(frame, op) ==
    SubSeq(frame.operand_stack,
           Len(frame.operand_stack) - BranchOperands(op) + 1,
           Len(frame.operand_stack))

\* the branch opcode finds its operands on the operand stack, of its kind
BranchTyped(frame, op) ==
    /\ Len(frame.operand_stack) >= BranchOperands(op)
    /\ \A i \in 1..BranchOperands(op) : BranchPopped(frame, op)[i].kind = BranchKind(op)

\* if_eq, if_ne, if_lt, if_ge, if_gt, if_le, if_icmpeq .. if_icmple,
\* if_acmpeq, if_acmpne, if_null, if_non_null: pop, compare, offset_pc
if_branch(frame, op, offset) ==
    IF Len(frame.operand_stack) < BranchOperands(op)
    THEN FrameErr([frame EXCEPT !.operand_stack = <<>>], "no operands in operand stack")
    ELSE LET popped == [frame EXCEPT !.operand_stack =
                            SubSeq(@, 1, Len(@) - BranchOperands(op))]
         IN IF ~BranchTyped(frame, op)
            THEN FrameErr(popped, "frame value is not of the kind compared")
            ELSE offset_pc(popped,
                           IF condition(op, BranchPopped(frame, op)) THEN offset ELSE 3)

\* JvmThread::aload
aload(frame, index) ==
    IF index + 1 > Len(frame.local_variables)
    THEN FrameErr(frame, "no local variable at index")
    ELSE IF frame.local_variables[index + 1].kind # "Reference"
         THEN FrameErr(frame, "local variable has to be a reference")
         ELSE push_operand(frame, frame.local_variables[index + 1])

Instr(op, operand) == [op |-> op, operand |-> operand]

\* Instruction::length
Instruction_length(instruction) ==
    IF instruction.op \in BranchOpcodes \cup {"goto"} THEN 3 ELSE 1

\* the first match of the dispatch loop: the handler of the instruction
execute_handler(frame, instruction) ==
    CASE instruction.op \in BranchOpcodes ->
             if_branch(frame, instruction.op, instruction.operand)
      [] instruction.op = "goto" -> offset_pc(frame, instruction.operand)
      [] instruction.op = "iconst" -> push_operand(frame, FvInt(instruction.operand))
      [] instruction.op = "aconst_null" -> push_operand(frame, FvReference(NullRef))
      [] instruction.op = "aload_0" -> aload(frame, 0)

\* the instructions the second match of the dispatch loop leaves the PC to
NoFurtherAdvance ==
    {"ifnull", "ifne", "ifnonnull", "ifeq", "ifle", "iflt", "ifgt",
     "if_icmpge", "if_icmpgt", "if_icmple", "if_icmplt", "ifge",
     "if_icmpeq", "if_icmpne", "if_acmpne", "goto",
     "tableswitch", "lookupswitch"}

\* one turn of the loop of JvmThread::execute: the handler, then the PC
execute_turn(frame, instruction) ==
    LET handled == execute_handler(frame, instruction)
    IN IF handled.status = "Err" THEN handled
       ELSE IF instruction.op \in NoFurtherAdvance THEN handled
       ELSE offset_pc(handled.frame, Instruction_length(instruction))

\* the immediates of the branches and the values pushed
Offsets == {-4, 5}
PushedInts == {-1, 0, 1}
BranchInstructions == {Instr(op, offset) : op \in BranchOpcodes, offset \in Offsets}
GotoInstructions == {Instr("goto", offset) : offset \in Offsets}
PushInstructions ==
    {Instr("iconst", v) : v \in PushedInts} \cup {Instr("aconst_null", 0), Instr("aload_0", 0)}

\* the frame of a method whose local 0 is an object, at the PC given
DispatchFrame(pc) ==
    [pc |-> pc, operand_stack |-> <<>>,
     local_variables |-> <<FvReference(HeapItem(0))>>]

DispatchSpecInit ==
    /\ VmIdle /\ HeapInit /\ LocksInit /\ LoaderIdle /\ ParserIdle
    /\ cli = NoProcess
    /\ cur_frame \in {DispatchFrame(0), DispatchFrame(4)}
    /\ frame_call = NoFrameCall

\* the loop of JvmThread::execute decodes the instruction at the PC and
\* makes one turn
Execute(instruction) ==
    /\ frame_call.status = "Ok"
    /\ cur_frame.pc =< MaxPc
    /\ LET turn == execute_turn(cur_frame, instruction)
       IN /\ cur_frame' = turn.frame
          /\ frame_call' =
                 [op |-> "execute", status |-> turn.status, error |-> turn.error,
                  instruction |-> instruction, pc |-> cur_frame.pc,
                  taken |-> /\ instruction.op \in BranchOpcodes
                            /\ BranchTyped(cur_frame, instruction.op)
                            /\ condition(instruction.op,
                                         BranchPopped(cur_frame, instruction.op))]
    /\ UNCHANGED <<vm_vars, heap_vars, lock_vars, loader_vars, parser_vars, cli>>

ExecuteBranch == \E instruction \in BranchInstructions : Execute(instruction)

ExecuteGoto == \E instruction \in GotoInstructions : Execute(instruction)

ExecutePush ==
    /\ Len(cur_frame.operand_stack) < MaxOperands
    /\ \E instruction \in PushInstructions : Execute(instruction)

DispatchNext == ExecuteBranch \/ ExecuteGoto \/ ExecutePush

DispatchSpec == DispatchSpecInit /\ [][DispatchNext]_vars

\* a conditional branch has been executed without error
Branched ==
    /\ frame_call.op = "execute"
    /\ frame_call.status = "Ok"
    /\ frame_call.instruction.op \in BranchOpcodes

\* C24: after a conditional branch opcode executed at PC p with the signed
\* immediate o, the PC of the next instruction is p + o when the condition
\* held and p + 3 when it did not: the dispatch loop adds nothing more.
C24_BranchTarget ==
    Branched =>
        cur_frame.pc = frame_call.pc +
            (IF frame_call.taken THEN frame_call.instruction.operand ELSE 3)

(***************************************************************************)
(* Local variables of a frame (Stack::local_variable and                   *)
(* Stack::set_local_variable, src/jvm/src/stack.rs; JvmThread::iinc).      *)
(***************************************************************************)
\* local variables are written while the frame holds fewer than MaxLocals
MaxLocals == 4

\* Vec::insert(index, element), index counted from 0
VecInsert(vec, index, element) ==
    SubSeq(vec, 1, index) \o <<element>> \o SubSeq(vec, index + 1, Len(vec))

\* Frame::new: the local variables of the frame made of the arguments
RECURSIVE Frame_new_lvs(_)
Frame_new_lvs(local_variables) ==
    IF local_variables = <<>> THEN <<>>
    ELSE LET lv == Head(local_variables)
         IN IF lv.kind \in {"Long", "Double"}
            THEN <<lv, FvReserved>> \o Frame_new_lvs(Tail(local_variables))
            ELSE <<lv>> \o Frame_new_lvs(Tail(local_variables))

\* Frame::local_variable
Frame_local_variable(frame, index) ==
    IF index < Len(frame.local_variables)
    THEN [status |-> "Ok", value |-> frame.local_variables[index + 1], error |-> "none"]
    ELSE [status |-> "Err", value |-> [kind |-> "none"],
          error |-> "no local variable at index"]

\* Frame::set_local_variable
Frame_set_local_variable(frame, index, value) ==
    IF index > Len(frame.local_variables)
    THEN FrameErr(frame, "index out of bounds of local variables")
    ELSE FrameOk([frame EXCEPT !.local_variables = VecInsert(@, index, value)])

\* Stack::set_local_variable
set_local_variable(frame, index, value) ==
    IF value.kind \in {"Long", "Double"}
    THEN LET first == Frame_set_local_variable(frame, index, value)
         IN IF first.status = "Err" THEN first
            ELSE Frame_set_local_variable(first.frame, index + 1, FvReserved)
    ELSE Frame_set_local_variable(frame, index, value)

\* JvmThread::iinc
iinc(frame, index, constant) ==
    LET local_variable == Frame_local_variable(frame, index)
    IN IF local_variable.status = "Err" THEN FrameErr(frame, local_variable.error)
       ELSE IF local_variable.value.kind # "Int"
            THEN FrameErr(frame, "frame value is not a int")
            ELSE set_local_variable(frame, index,
                                    FvInt(local_variable.value.int + constant))

\* the arguments the frame is made of, the values stored and the indexes used
ArgumentLists ==
    {<<>>, <<FvInt(1), FvInt(2)>>, <<FvLong(3), FvInt(1)>>, <<FvReference(NullRef)>>}
StoredValues == {FvInt(5), FvLong(6), FvReference(HeapItem(0))}
LocalIndexes == 0..MaxLocals

LocalsSpecInit ==
    /\ VmIdle /\ HeapInit /\ LocksInit /\ LoaderIdle /\ ParserIdle
    /\ cli = NoProcess
    /\ \E arguments \in ArgumentLists :
           cur_frame = [pc |-> 0, operand_stack |-> <<>>,
                        local_variables |-> Frame_new_lvs(arguments)]
    /\ frame_call = NoFrameCall

\* a store instruction (istore, lstore, astore) calls Stack::set_local_variable
SetLocalVariable(index, value) ==
    /\ Len(cur_frame.local_variables) < MaxLocals
    /\ LET set == set_local_variable(cur_frame, index, value)
       IN /\ cur_frame' = set.frame
          /\ frame_call' = [op |-> "set_local_variable", status |-> set.status,
                            error |-> set.error, index |-> index, value |-> value,
                            before |-> cur_frame.local_variables]
    /\ UNCHANGED <<vm_vars, heap_vars, lock_vars, loader_vars, parser_vars, cli>>

\* iinc adds its constant to a local variable
Iinc(index, constant) ==
    /\ Len(cur_frame.local_variables) < MaxLocals
    /\ LET set == iinc(cur_frame, index, constant)
           read == Frame_local_variable(cur_frame, index)
       IN /\ cur_frame' = set.frame
          /\ frame_call' = [op |-> "iinc", status |-> set.status,
                            error |-> set.error, index |-> index,
                            value |-> IF set.status = "Ok"
                                      THEN FvInt(read.value.int + constant)
                                      ELSE [kind |-> "none"],
                            before |-> cur_frame.local_variables]
    /\ UNCHANGED <<vm_vars, heap_vars, lock_vars, loader_vars, parser_vars, cli>>

\* a load instruction calls Stack::local_variable
LocalVariable(index) ==
    /\ LET read == Frame_local_variable(cur_frame, index)
       IN frame_call' = [op |-> "local_variable", status |-> read.status,
                         error |-> read.error, index |-> index, value |-> read.value,
                         before |-> cur_frame.local_variables]
    /\ UNCHANGED <<vm_vars, heap_vars, lock_vars, loader_vars, parser_vars, cli, cur_frame>>

LocalsNext ==
    \/ \E index \in LocalIndexes, value \in StoredValues : SetLocalVariable(index, value)
    \/ \E index \in LocalIndexes : Iinc(index, 1)
    \/ \E index \in LocalIndexes : LocalVariable(index)

LocalsSpec == LocalsSpecInit /\ [][LocalsNext]_vars

\* a local variable has been written: by set_local_variable or by iinc
LocalWritten ==
    /\ frame_call.op \in {"set_local_variable", "iinc"}
    /\ frame_call.status = "Ok"

\* C25: after set_local_variable(i, v), local i reads back as v (and local
\* i + 1 is Reserved when v is a long or a double), the frame has as many
\* local variables as before, and every other local variable has the value
\* it had, at the index it had.
C25_OnlyTheLocalWritten ==
    LocalWritten =>
        LET old == frame_call.before
            new == cur_frame.local_variables
            i == frame_call.index + 1
            wide == frame_call.value.kind \in {"Long", "Double"}
        IN /\ Frame_local_variable(cur_frame, frame_call.index).status = "Ok"
           /\ Frame_local_variable(cur_frame, frame_call.index).value = frame_call.value
           /\ wide => Frame_local_variable(cur_frame, frame_call.index + 1).value = FvReserved
           /\ Len(new) = Len(old)
           /\ \A j \in 1..Len(old) :
                  (j # i /\ ~(wide /\ j = i + 1)) => new[j] = old[j]

\* C26: reading a local variable at an index that holds Reserved is an
\* error, and local_variable never returns Reserved as a value.
C26_ReservedNotRead ==
    frame_call.op = "local_variable" =>
        /\ (/\ frame_call.index < Len(frame_call.before)
            /\ frame_call.before[frame_call.index + 1] = FvReserved)
               => frame_call.status = "Err"
        /\ frame_call.status = "Ok" => frame_call.value # FvReserved

(***************************************************************************)
(* invokevirtual: method resolution and selection                          *)
(* (JvmThread::invoke_virtual, select_method and resolve_method,           *)
(* src/jvm/src/thread.rs).                                                 *)
(***************************************************************************)
\* the access flags of a method, all with code
VirtualMethod(private, synchronized) ==
    [private |-> private, synchronized |-> synchronized]

NoMethod == [private |-> FALSE, synchronized |-> FALSE, none |-> TRUE]

\* the class table after
\*   class Base    { public synchronized void m(); private void p(); public void n(); }
\*   class Derived extends Base { public synchronized void m(); public void p(); }
\*   class java.lang.Class { public void g(); }
\*   class K extends java.lang.Class { public void g(); }   (nothing the loader
\*                                      checks keeps a class file from naming it)
\* are initialized
VirtualClasses ==
    [c \in {"Base", "Derived", JavaLangClass, "K"} |->
        IF c = "Base"
        THEN [super_class |-> NoClass,
              methods |-> [m |-> VirtualMethod(FALSE, TRUE), p |-> VirtualMethod(TRUE, FALSE),
                           n |-> VirtualMethod(FALSE, FALSE)]]
        ELSE IF c = "Derived"
        THEN [super_class |-> "Base",
              methods |-> [m |-> VirtualMethod(FALSE, TRUE), p |-> VirtualMethod(FALSE, FALSE)]]
        ELSE IF c = JavaLangClass
        THEN [super_class |-> NoClass, methods |-> [g |-> VirtualMethod(FALSE, FALSE)]]
        ELSE [super_class |-> JavaLangClass, methods |-> [g |-> VirtualMethod(FALSE, FALSE)]]]

\* the objects on the heap: a Derived, a Base and a K
VirtualObjects ==
    [id \in 0..2 |-> ObjectItem(IF id = 0 THEN "Derived" ELSE IF id = 1 THEN "Base" ELSE "K",
                                [x |-> 0])]

\* the method references of the invokevirtual instructions, and the receivers
VirtualRefs ==
    {<<"Base", "m">>, <<"Base", "p">>, <<"Base", "n">>, <<"Derived", "n">>,
     <<"Derived", "m">>, <<"Derived", "q">>, <<JavaLangClass, "g">>}
VirtualReceivers ==
    {NullRef, ClassRef("Derived")} \cup {HeapItem(id) : id \in DOMAIN VirtualObjects}

ErrNullPointer == "TODO: throw NullPointerException"
ErrMethodNotFound == "method not found, maybe check interfaces?"
ErrNoMethod == "no method found"

MethodOk(class, method) == [status |-> "Ok", class |-> class, method |-> method, error |-> "none"]
MethodErr(error) == [status |-> "Err", class |-> NoClass, method |-> NoMethod, error |-> error]

\* JvmThread::resolve_method, on classes that are initialized
RECURSIVE resolve_method(_, _, _)
resolve_method(table, class, name) ==
    IF name \in DOMAIN table[class].methods
    THEN MethodOk(class, table[class].methods[name])
    ELSE IF table[class].super_class = NoClass
         THEN MethodErr(ErrMethodNotFound)
         ELSE resolve_method(table, table[class].super_class, name)

\* Class::overriden_method: the method of the class that overrides the one
\* given, one of its name and descriptor that is not private
overriden_method(class, method, name) ==
    IF name \in DOMAIN class.methods /\ ~class.methods[name].private
    THEN class.methods[name]
    ELSE NoMethod

\* JvmThread::select_method
RECURSIVE select_method(_, _, _, _)
select_method(table, class, method, name) ==
    IF overriden_method(table[class], method, name) # NoMethod
    THEN MethodOk(class, overriden_method(table[class], method, name))
    ELSE IF table[class].super_class # NoClass
         THEN select_method(table, table[class].super_class, method, name)
         ELSE MethodErr(ErrNoMethod)

\* JvmThread::class_identifier of a reference that is not null
class_identifier(items, reference) ==
    IF reference.kind = "HeapItem" THEN items[reference.id].class ELSE reference.id

\* the test of invoke_virtual without the receiver's kind
is_statically_bound_by_method(method, class, objectref) ==
    \/ method.private
    \/ class = JavaLangClass

\* the test of invoke_virtual: the method resolved is the one to run
is_statically_bound(method, class, objectref) ==
    \/ method.private
    \/ class = JavaLangClass
    \/ objectref.kind = "Class"

\* what invoke_virtual has done: the method it ran, for the reference and
\* the receiver given, with the frames and monitors it found
VirtualCall(status, named, name, objectref, class, t) ==
    [op |-> "invoke_virtual", status |-> status, named |-> named, name |-> name,
     objectref |-> objectref, class |-> class,
     before |-> [stack |-> stack[t], object_monitors |-> object_monitors,
                 class_monitors |-> class_monitors]]

\* JvmThread::invoke_virtual, with method resolution and selection
invoke_virtual_select(t, named, name, objectref) ==
    LET resolved == resolve_method(classes, named, name)
        target == IF is_statically_bound(resolved.method, resolved.class, objectref)
                  THEN resolved
                  ELSE select_method(classes, class_identifier(heap_items, objectref),
                                     resolved.method, name)
        heap_id == heap_id_of(objectref)
        thread_id == current_thread_id[t]
        entered == IF heap_id # None
                   THEN enter_object_monitor(object_monitors, heap_id, thread_id)
                   ELSE enter_class_monitor(class_monitors, objectref.id, thread_id)
        failed(err) == /\ Crash(t, err)
                       /\ UNCHANGED <<object_monitors, class_monitors>>
                       /\ frame_call' = VirtualCall("Err", named, name, objectref, NoClass, t)
        pushed == /\ stack' = [stack EXCEPT ![t] = Append(@, Frame(name, target.class, heap_id))]
                  /\ UNCHANGED <<current_thread_id, thread_error>>
                  /\ frame_call' = VirtualCall("Ok", named, name, objectref, target.class, t)
    IN
    /\ Running(t)
    /\ Len(stack[t]) < MaxDepth
    /\ IF resolved.status = "Err" THEN failed(resolved.error)
       ELSE IF objectref = NullRef THEN failed(ErrNullPointer)
       ELSE IF target.status = "Err" THEN failed(target.error)
       ELSE IF target.method.synchronized
       THEN IF thread_id = None THEN failed(ErrNoThreadId)
            ELSE /\ IF heap_id # None
                    THEN object_monitors' = entered.monitors /\ UNCHANGED class_monitors
                    ELSE class_monitors' = entered.monitors /\ UNCHANGED object_monitors
                 /\ IF entered.ret THEN pushed
                    ELSE /\ Crash(t, ErrWait)
                         /\ frame_call' = VirtualCall("Err", named, name, objectref, NoClass, t)
       ELSE pushed /\ UNCHANGED <<object_monitors, class_monitors>>
    /\ UNCHANGED <<root_object_monitors, mon_call, held, init_vars, heap_vars, lock_vars,
                   loader_vars, parser_vars, cli, cur_frame>>

VirtualSpecInit ==
    /\ MonInit
    /\ stack = [t \in VmThreads |-> IF t = MainThread THEN <<Frame("main", "Derived", None)>>
                                    ELSE <<>>]
    /\ current_thread_id = [t \in VmThreads |-> IF t = MainThread THEN 1 ELSE None]
    /\ thread_error = [t \in VmThreads |-> IF t = MainThread THEN NoError ELSE NotStarted]
    /\ calls = [t \in VmThreads |-> <<>>]
    /\ classes = VirtualClasses
    /\ loader_cache = DOMAIN VirtualClasses
    /\ class_files = JdkFiles
    /\ main_class = "Derived"
    /\ clinit_runs = [c \in DOMAIN class_files |-> 0]
    /\ reads = <<>>
    /\ heap_current_id = 3
    /\ heap_items = VirtualObjects
    /\ heap_poisoned = FALSE
    /\ heap_call = NoHeapCall
    /\ allocated = <<0, 1, 2>>
    /\ last_stored = EmptyMap
    /\ LocksInit /\ LoaderIdle /\ ParserIdle /\ OthersIdle

InvokeVirtualSelect ==
    \E ref \in VirtualRefs, objectref \in VirtualReceivers :
        invoke_virtual_select(MainThread, ref[1], ref[2], objectref)

VirtualNext == InvokeVirtualSelect

VirtualSpec == VirtualSpecInit /\ [][VirtualNext]_vars

\* the super-class chain of a class, the class first
RECURSIVE SuperChain(_)
SuperChain(class) ==
    IF VirtualClasses[class].super_class = NoClass THEN <<class>>
    ELSE <<class>> \o SuperChain(VirtualClasses[class].super_class)

\* the first class of a chain that declares the method: any declaration, or
\* one that is not private
FirstDeclaring(chain, name, any) ==
    LET declaring == {i \in DOMAIN chain :
                          /\ name \in DOMAIN VirtualClasses[chain[i]].methods
                          /\ any \/ ~VirtualClasses[chain[i]].methods[name].private}
    IN IF declaring = {} THEN NoClass
       ELSE chain[CHOOSE i \in declaring : \A j \in declaring : i =< j]

\* the runtime class of a receiver that is not null
RuntimeClass(objectref) ==
    IF objectref.kind = "HeapItem" THEN VirtualObjects[objectref.id].class ELSE objectref.id

\* C28: invokevirtual runs the statically resolved method when its declaring
\* class is java.lang.Class, when it is private or when the receiver is a
\* class reference; otherwise it runs the method selected from the
\* receiver's runtime class and then up its super-class chain. A null
\* receiver is an error, with no monitor entered and no frame pushed.
C28_VirtualDispatch ==
    frame_call.op = "invoke_virtual" =>
        LET declaring == FirstDeclaring(SuperChain(frame_call.named), frame_call.name, TRUE)
            objectref == frame_call.objectref
        IN /\ (declaring # NoClass /\ objectref = NullRef) =>
                  /\ frame_call.status = "Err"
                  /\ thread_error[MainThread] = ErrNullPointer
                  /\ stack[MainThread] = frame_call.before.stack
                  /\ object_monitors = frame_call.before.object_monitors
                  /\ class_monitors = frame_call.before.class_monitors
           /\ frame_call.status = "Ok" =>
                  /\ declaring # NoClass
                  /\ stack[MainThread] =
                         Append(frame_call.before.stack,
                                Frame(frame_call.name, frame_call.class, heap_id_of(objectref)))
                  /\ frame_call.class =
                         IF \/ VirtualClasses[declaring].methods[frame_call.name].private
                            \/ declaring = JavaLangClass
                            \/ objectref.kind = "Class"
                         THEN declaring
                         ELSE FirstDeclaring(SuperChain(RuntimeClass(objectref)),
                                             frame_call.name, FALSE)

\* a method reference to Base.m has run Derived.m on a Derived object, in a
\* frame pushed after the monitor of the object was entered
C28_Witness ==
    /\ frame_call.op = "invoke_virtual"
    /\ frame_call.status = "Ok"
    /\ frame_call.named = "Base"
    /\ frame_call.name = "m"
    /\ frame_call.objectref = HeapItem(0)
    /\ frame_call.class = "Derived"
    /\ 0 \in DOMAIN object_monitors

(***************************************************************************)
(* getfield and putfield (JvmThread::get_field and put_field,              *)
(* src/jvm/src/thread.rs; Heap::get_field and set_field, heap.rs).         *)
(***************************************************************************)
\* the class table after class A { int x; } is initialized: the record of A
\* holds the class-level instance fields copied from java.lang.Class
FieldClasses ==
    [c \in {"A", JavaLangClass} |-> [class_fields |-> [classLoader |-> 0]]]

\* the objects on the heap: two instances of A and an int array
FieldObjects ==
    [id \in 0..2 |-> IF id = 2 THEN PrimitiveArrayItem("Int", <<PInt(0)>>)
                     ELSE ObjectItem("A", [x |-> 0])]

\* the field references of the instructions, the receivers and the values
FieldRefs == {<<"A", "x">>, <<JavaLangClass, "classLoader">>}
FieldReceivers == {NullRef, ClassRef("A")} \cup {HeapItem(id) : id \in DOMAIN FieldObjects}
FieldValues == {1, 2}

ErrNoHeapId == "no heap id found"
ErrNotObjectRef == "object ref has to be reference but not array"
ErrFieldNotFound == "field not found on object"
ErrNoObject == "item is no object"
ErrNoClassIdentifier == "no class identifier found for value"

\* Heap::set_field
Heap_set_field(items, object_id, name, value) ==
    IF object_id \notin DOMAIN items THEN HeapErr(items, ErrUnknownObject)
    ELSE IF items[object_id].kind = "Object"
    THEN IF name \notin DOMAIN items[object_id].fields THEN HeapErr(items, ErrFieldNotFound)
         ELSE HeapOk([items EXCEPT ![object_id].fields[name] = value], None)
    ELSE HeapOk(items, None)

\* Heap::get_field
Heap_get_field(items, id, name) ==
    IF id \notin DOMAIN items THEN HeapErr(items, ErrUnknownObject)
    ELSE IF items[id].kind = "Object"
    THEN IF name \notin DOMAIN items[id].fields THEN HeapErr(items, ErrFieldNotFound)
         ELSE HeapOk(items, items[id].fields[name])
    ELSE HeapErr(items, ErrNoObject)

\* JvmThread::is_array
is_array(items, value) ==
    IF value.kind = "HeapItem" /\ value.id \in DOMAIN items
    THEN items[value.id].kind \in {"ReferenceArray", "PrimitiveArray"}
    ELSE FALSE

\* Class::get_class_field_value
get_class_field_value(class, name) == class.class_fields[name]

\* JvmThread::class_identifier_from_reference
class_identifier_from_reference(items, reference) ==
    IF reference.kind = "Class" THEN [status |-> "Ok", value |-> reference.id]
    ELSE IF reference.kind = "HeapItem"
    THEN [status |-> "Ok", value |-> items[reference.id].class]
    ELSE [status |-> "Err", value |-> ErrNoClassIdentifier]

\* what a field instruction was given and what it returned
FieldCall(op, status, class, name, objectref, value) ==
    [op |-> op, status |-> status, class |-> class, name |-> name,
     objectref |-> objectref, value |-> value]

\* JvmThread::put_field, the field resolved
put_field(class, name, value, object_ref) ==
    /\ IF is_array(heap_items, object_ref)
       THEN /\ frame_call' = FieldCall("put_field", "Err", class, name, object_ref, ErrNotObjectRef)
            /\ UNCHANGED heap_items
       ELSE IF object_ref.kind # "HeapItem"
       THEN /\ frame_call' = FieldCall("put_field", "Err", class, name, object_ref, ErrNoHeapId)
            /\ UNCHANGED heap_items
       ELSE LET set == Heap_set_field(heap_items, object_ref.id, name, value)
            IN /\ heap_items' = set.items
               /\ frame_call' = FieldCall("put_field", set.status, class, name, object_ref,
                                          IF set.status = "Ok" THEN value ELSE set.value)
    /\ UNCHANGED <<vm_vars, heap_current_id, heap_poisoned, heap_call, allocated, last_stored,
                   lock_vars, loader_vars, parser_vars, cli, cur_frame>>

\* JvmThread::get_field, the field resolved
get_field(class, name, object_ref) ==
    /\ IF is_array(heap_items, object_ref)
       THEN frame_call' = FieldCall("get_field", "Err", class, name, object_ref, ErrNotObjectRef)
       ELSE IF class = JavaLangClass
       THEN LET identifier == class_identifier_from_reference(heap_items, object_ref)
            IN IF identifier.status = "Err"
               THEN frame_call' = FieldCall("get_field", "Err", class, name, object_ref,
                                            identifier.value)
               ELSE frame_call' = FieldCall("get_field", "Ok", class, name, object_ref,
                                            get_class_field_value(classes[identifier.value], name))
       ELSE IF object_ref.kind # "HeapItem"
       THEN frame_call' = FieldCall("get_field", "Err", class, name, object_ref, ErrNoHeapId)
       ELSE LET got == Heap_get_field(heap_items, object_ref.id, name)
            IN frame_call' = FieldCall("get_field", got.status, class, name, object_ref, got.value)
    /\ UNCHANGED <<vm_vars, heap_vars, lock_vars, loader_vars, parser_vars, cli, cur_frame>>

FieldSpecInit ==
    /\ MonInit /\ ThreadsIdle
    /\ calls = [t \in VmThreads |-> <<>>]
    /\ classes = FieldClasses
    /\ loader_cache = DOMAIN FieldClasses
    /\ class_files = JdkFiles
    /\ main_class = "A"
    /\ clinit_runs = [c \in DOMAIN class_files |-> 0]
    /\ reads = <<>>
    /\ heap_current_id = 3
    /\ heap_items = FieldObjects
    /\ heap_poisoned = FALSE
    /\ heap_call = NoHeapCall
    /\ allocated = <<0, 1, 2>>
    /\ last_stored = EmptyMap
    /\ LocksInit /\ LoaderIdle /\ ParserIdle /\ OthersIdle

PutField ==
    \E ref \in FieldRefs, value \in FieldValues, object_ref \in FieldReceivers :
        put_field(ref[1], ref[2], value, object_ref)

GetField ==
    \E ref \in FieldRefs, object_ref \in FieldReceivers : get_field(ref[1], ref[2], object_ref)

FieldNext == PutField \/ GetField

FieldSpec == FieldSpecInit /\ [][FieldNext]_vars

\* the instruction names a field of java.lang.Class on a class reference
OnClassReference ==
    /\ frame_call.op \in {"put_field", "get_field"}
    /\ frame_call.objectref.kind = "Class"
    /\ frame_call.class = JavaLangClass

\* the instruction names a field of the class of the object it is given
OnObject ==
    /\ frame_call.op \in {"put_field", "get_field"}
    /\ frame_call.objectref.kind = "HeapItem"
    /\ heap_items[frame_call.objectref.id].kind = "Object"
    /\ frame_call.class = heap_items[frame_call.objectref.id].class

\* C29: getfield and putfield on a class reference read and write the
\* class-level fields of the class referred to (after the putfield the
\* mapping holds the value stored, which a getfield then returns); on any
\* other receiver they read and write the fields of the heap object.
C29_FieldTargets ==
    /\ OnClassReference =>
           /\ frame_call.status = "Ok"
           /\ frame_call.value =
                  classes[frame_call.objectref.id].class_fields[frame_call.name]
    /\ OnObject =>
           /\ frame_call.status = "Ok"
           /\ frame_call.value =
                  heap_items[frame_call.objectref.id].fields[frame_call.name]

(***************************************************************************)
(* newarray and the stores into primitive arrays (JvmThread::new_array,    *)
(* bastore, iastore and castore, src/jvm/src/thread.rs).                   *)
(***************************************************************************)
\* PrimitiveArrayType::new
PrimitiveArrayType_new(atype) ==
    CASE atype = 4 -> "Boolean"
      [] atype = 5 -> "Char"
      [] atype = 8 -> "Byte"
      [] atype = 9 -> "Short"
      [] atype = 10 -> "Int"
      [] OTHER -> "invalid array type"

\* the array types of the newarray instructions, the values stored and the
\* references the stores are given
ArrayTypeCodes == {4, 5, 8, 10}
StoredInts == {3}
ArrayRefs == {NullRef} \cup {HeapItem(id) : id \in AllocIds}

ErrNegativeArraySize == "TODO: throw NegativeArraySizeException"
ErrNotBoolOrByte == "array type has to be bool or byte"

\* an instruction that ends in an error before it writes the heap
InstructionErr(fn, t, error) ==
    /\ heap_call' = HeapCall(fn, t, None, None, "Err", error)
    /\ UNCHANGED <<heap_current_id, heap_items, heap_poisoned, allocated, last_stored>>
    /\ UNCHANGED <<vm_vars, other_vars, lock_vars, loader_vars, parser_vars>>

\* JvmThread::new_array
new_array(t, atype, count) ==
    IF count < 0 THEN InstructionErr("new_array", t, ErrNegativeArraySize)
    ELSE AllocateDefaultPrimitiveArray(t, PrimitiveArrayType_new(atype), count)

\* value as u8 and value as u16 of an i32
as_u8(value) == value % 256
as_u16(value) == value % 65536

\* JvmThread::bastore
bastore(t, value, index, array_ref) ==
    IF array_ref.kind # "HeapItem" THEN InstructionErr("bastore", t, ErrNoHeapId)
    ELSE IF heap_poisoned THEN InstructionErr("bastore", t, ErrLockPoisoned)
    ELSE LET got == Heap_get_primitive_array(heap_items, array_ref.id)
         IN IF got.status = "Err" THEN InstructionErr("bastore", t, got.value)
            ELSE IF heap_items[array_ref.id].array_type = "Boolean"
            THEN StoreIntoPrimitiveArray(t, array_ref.id, index, PBoolean(value % 2 # 0))
            ELSE IF heap_items[array_ref.id].array_type = "Byte"
            THEN StoreIntoPrimitiveArray(t, array_ref.id, index, PByte(as_u8(value)))
            ELSE InstructionErr("bastore", t, ErrNotBoolOrByte)

\* JvmThread::iastore
iastore(t, value, index, array_ref) ==
    IF array_ref.kind # "HeapItem" THEN InstructionErr("iastore", t, ErrNoHeapId)
    ELSE StoreIntoPrimitiveArray(t, array_ref.id, index, PInt(value))

\* JvmThread::castore
castore(t, value, index, array_ref) ==
    IF array_ref.kind # "HeapItem" THEN InstructionErr("castore", t, ErrNoHeapId)
    ELSE StoreIntoPrimitiveArray(t, array_ref.id, index, PShort(as_u16(value)))

NewArray ==
    \E t \in ThreadIds, atype \in ArrayTypeCodes, count \in {-1, MaxLen} :
        new_array(t, atype, count)
Bastore ==
    \E t \in ThreadIds, value \in StoredInts, index \in Indices, array_ref \in ArrayRefs :
        bastore(t, value, index, array_ref)
Iastore ==
    \E t \in ThreadIds, value \in StoredInts, index \in Indices, array_ref \in ArrayRefs :
        iastore(t, value, index, array_ref)
Castore ==
    \E t \in ThreadIds, value \in StoredInts, index \in Indices, array_ref \in ArrayRefs :
        castore(t, value, index, array_ref)

ArraySpecInit == HeapSpecInit

ArrayNext == NewArray \/ Bastore \/ Iastore \/ Castore

ArraySpec == ArraySpecInit /\ [][ArrayNext]_vars

\* C30: whatever newarray, bastore, castore and iastore instructions have
\* run, every element of every primitive array is of the element type of
\* its array: a store coerces the value to that type or is rejected.
C30_ElementTypes ==
    \A id \in DOMAIN heap_items :
        heap_items[id].kind = "PrimitiveArray" =>
            \A i \in DOMAIN heap_items[id].values :
                heap_items[id].values[i].tag = heap_items[id].array_type

(***************************************************************************)
(* newarray and anewarray with a negative count                            *)
(* (src/jvm/src/thread.rs, src/jvm/src/heap.rs)                            *)
(***************************************************************************)
\* the counts popped by the two instructions
ArrayCounts == {-2, -1, 0, MaxLen}

ErrCapacityOverflow == "capacity overflow"

\* length as usize of an i32 on a 64-bit target: the sign is extended; the
\* 64 bits are held as four 16-bit limbs, the most significant first
as_usize(length) ==
    <<IF length < 0 THEN 65535 ELSE 0, IF length < 0 THEN 65535 ELSE 0,
      (length \div 65536) % 65536, length % 65536>>

\* vec![ReferenceValue::Null; length] panics when the bytes asked for exceed
\* isize::MAX: every length of 2^63 and more does, whatever the element size
capacity_overflow(length) == length[1] >= 32768

\* the class table of a thread that has initialized the element class
NewArrayClasses ==
    [c \in HeapClasses |-> finished_initialization(Class_new(c))]

\* JvmThread::a_new_array: initialize returns at its first test for a class
\* that is initialized; the length is cast and the Vec is built inside
\* Heap::allocate_array, while JvmThread::allocate_array holds the heap mutex
a_new_array(t, array_class, length) ==
    /\ array_class \in DOMAIN classes
    /\ already_initializing(classes[array_class])
    /\ IF heap_poisoned THEN InstructionErr("a_new_array", t, ErrLockPoisoned)
       ELSE IF capacity_overflow(as_usize(length))
       THEN /\ heap_poisoned' = TRUE
            /\ heap_call' = HeapCall("a_new_array", t, None, None, "panic", ErrCapacityOverflow)
            /\ UNCHANGED <<heap_current_id, heap_items, allocated, last_stored>>
            /\ UNCHANGED <<vm_vars, other_vars, lock_vars, loader_vars, parser_vars>>
       ELSE AllocateArray(t, array_class, length)

NewArrayCounted ==
    \E t \in ThreadIds, atype \in ArrayTypeCodes, count \in ArrayCounts :
        new_array(t, atype, count)
ANewArray ==
    \E t \in ThreadIds, array_class \in HeapClasses, length \in ArrayCounts :
        a_new_array(t, array_class, length)

NewArraySpecInit ==
    /\ MonInit /\ ThreadsIdle
    /\ calls = [t \in VmThreads |-> <<>>]
    /\ classes = NewArrayClasses
    /\ loader_cache = DOMAIN NewArrayClasses
    /\ class_files = JdkFiles
    /\ main_class = NoClass
    /\ clinit_runs = [c \in DOMAIN class_files |-> 0]
    /\ reads = {}
    /\ HeapInit /\ LocksInit /\ LoaderIdle /\ ParserIdle /\ OthersIdle

NewArrayNext == NewArrayCounted \/ ANewArray

NewArraySpec == NewArraySpecInit /\ [][NewArrayNext]_vars

\* C31: newarray and anewarray given a negative count both end in a runtime
\* error: no heap item is allocated and no heap id is consumed.
C31_NegativeCountIsError ==
    [][\A t \in ThreadIds, count \in {c \in ArrayCounts : c < 0} :
          (\/ \E atype \in ArrayTypeCodes : new_array(t, atype, count)
           \/ \E array_class \in HeapClasses : a_new_array(t, array_class, count))
              => /\ heap_call'.status = "Err"
                 /\ heap_items' = heap_items
                 /\ heap_current_id' = heap_current_id]_vars

(***************************************************************************)
(* Integer arithmetic of the interpreter (src/jvm/src/thread.rs: iadd,     *)
(* ladd, isub, lsub, imul, lmul, ineg, idiv, irem)                         *)
(***************************************************************************)
\* i32::MAX and i32::MIN
Max32 == 2147483647
Min32 == -Max32 - 1

\* i32::to_le_bytes and i32::from_le_bytes: the two's complement bytes of a
\* value, the least significant first
to_le_bytes(value) == [i \in 1..4 |-> (value \div 256^(i - 1)) % 256]
from_le_bytes(bytes) ==
    (IF bytes[4] >= 128 THEN bytes[4] - 256 ELSE bytes[4]) * 16777216
        + bytes[3] * 65536 + bytes[2] * 256 + bytes[1]

\* the sign bit of a two's complement value
Sign(bytes) == bytes[Len(bytes)] >= 128

\* value as i64 of an i32: the bytes of an i64 are held as they are
sign_extend(bytes) == bytes \o [i \in 1..4 |-> IF Sign(bytes) THEN 255 ELSE 0]

\* i64::MAX and i64::MIN
LongMax == [i \in 1..8 |-> IF i = 8 THEN 127 ELSE 255]
LongMin == [i \in 1..8 |-> IF i = 8 THEN 128 ELSE 0]

\* the sum of two values of one width and a carry, the carry out dropped
RECURSIVE AddBytes(_, _, _)
AddBytes(a, b, carry) ==
    IF a = <<>> THEN <<>>
    ELSE <<(a[1] + b[1] + carry) % 256>>
             \o AddBytes(Tail(a), Tail(b), (a[1] + b[1] + carry) \div 256)

NotBytes(a) == [i \in DOMAIN a |-> 255 - a[i]]
ZeroBytes(a) == [i \in DOMAIN a |-> 0]

\* wrapping_add, wrapping_sub, wrapping_neg
wrapping_add(a, b) == AddBytes(a, b, 0)
wrapping_sub(a, b) == AddBytes(a, NotBytes(b), 1)
wrapping_neg(a) == AddBytes(NotBytes(a), ZeroBytes(a), 1)

\* the column k of the product of a and b: the sum of a[i] * b[k + 1 - i]
RECURSIVE Column(_, _, _, _)
Column(a, b, k, i) ==
    IF i > k THEN 0 ELSE a[i] * b[k + 1 - i] + Column(a, b, k, i + 1)

RECURSIVE MulBytes(_, _, _, _)
MulBytes(a, b, k, carry) ==
    IF k > Len(a) THEN <<>>
    ELSE LET sum == Column(a, b, k, 1) + carry
         IN <<sum % 256>> \o MulBytes(a, b, k + 1, sum \div 256)

\* wrapping_mul
wrapping_mul(a, b) == MulBytes(a, b, 1, 0)

\* the outcome of an operator of the language on integers
Computed(value) == [status |-> "Ok", value |-> value, error |-> "none"]
ArithmeticPanic(message) == [status |-> "panic", value |-> <<>>, error |-> message]

\* a + b, a - b and -a of i32 or i64: with overflow checks (the default of a
\* debug build) an overflow is a panic, without them the result wraps
add(a, b, overflow_checks) ==
    IF overflow_checks /\ Sign(a) = Sign(b) /\ Sign(wrapping_add(a, b)) # Sign(a)
    THEN ArithmeticPanic("attempt to add with overflow")
    ELSE Computed(wrapping_add(a, b))
sub(a, b, overflow_checks) ==
    IF overflow_checks /\ Sign(a) # Sign(b) /\ Sign(wrapping_sub(a, b)) # Sign(a)
    THEN ArithmeticPanic("attempt to subtract with overflow")
    ELSE Computed(wrapping_sub(a, b))
neg(a, overflow_checks) ==
    IF overflow_checks /\ Sign(a) /\ wrapping_neg(a) = a
    THEN ArithmeticPanic("attempt to negate with overflow")
    ELSE Computed(wrapping_neg(a))

ErrNoOperands == "no operands in operand stack"
ErrNotInt == "frame value is not a int"
ErrNotLong == "frame value is not a long"

FramePanic(frame, message) == [status |-> "panic", frame |-> frame, error |-> message]

\* the bytes of the integer held in a frame value, and the frame value of
\* the bytes: an Int holds an i32, a Long the bytes of an i64
IntegerBytes(value) == IF value.kind = "Int" THEN to_le_bytes(value.int) ELSE value.long
OfBytes(kind, bytes) == IF kind = "Int" THEN FvInt(from_le_bytes(bytes)) ELSE FvLong(bytes)

\* self.stack.pop_operand()?.int()? and .long()?
pop_integer(frame, kind) ==
    IF frame.operand_stack = <<>> THEN FrameErr(frame, ErrNoOperands)
    ELSE LET popped == [frame EXCEPT !.operand_stack = SubSeq(@, 1, Len(@) - 1)]
             value == frame.operand_stack[Len(frame.operand_stack)]
         IN IF value.kind # kind
            THEN FrameErr(popped, IF kind = "Int" THEN ErrNotInt ELSE ErrNotLong)
            ELSE [status |-> "Ok", frame |-> popped, error |-> "none", value |-> IntegerBytes(value)]

\* pop value2, pop value1, push the result of the operator
binary(frame, kind, Op(_, _)) ==
    LET second == pop_integer(frame, kind)
    IN IF second.status = "Err" THEN second
       ELSE LET first == pop_integer(second.frame, kind)
            IN IF first.status = "Err" THEN first
               ELSE LET result == Op(first.value, second.value)
                    IN IF result.status = "Ok"
                       THEN push_operand(first.frame, OfBytes(kind, result.value))
                       ELSE [status |-> result.status, frame |-> first.frame,
                             error |-> result.error]

\* JvmThread::iadd, ladd, isub, lsub, imul, lmul
iadd_frame(frame, overflow_checks) ==
    binary(frame, "Int", LAMBDA value1, value2 : add(value1, value2, overflow_checks))
ladd(frame, overflow_checks) ==
    binary(frame, "Long", LAMBDA value1, value2 : add(value1, value2, overflow_checks))
isub(frame, overflow_checks) ==
    binary(frame, "Int", LAMBDA value1, value2 : sub(value1, value2, overflow_checks))
lsub(frame, overflow_checks) ==
    binary(frame, "Long", LAMBDA value1, value2 : sub(value1, value2, overflow_checks))
imul(frame) ==
    binary(frame, "Int", LAMBDA value1, value2 : Computed(wrapping_mul(value1, value2)))
lmul(frame) ==
    binary(frame, "Long", LAMBDA value1, value2 : Computed(wrapping_mul(value1, value2)))

\* JvmThread::ineg
ineg(frame, overflow_checks) ==
    LET value == pop_integer(frame, "Int")
    IN IF value.status = "Err" THEN value
       ELSE LET result == neg(value.value, overflow_checks)
            IN IF result.status = "Ok"
               THEN push_operand(value.frame, OfBytes("Int", result.value))
               ELSE FramePanic(value.frame, result.error)

ErrArithmetic == "TODO: ArithmeticException"

\* a / b of i32 rounds towards zero; division by zero and i32::MIN / -1 are
\* panics in every build
NonPositive(value) == IF value > 0 THEN -value ELSE value
div(a, b) ==
    IF b = 0 THEN ArithmeticPanic("attempt to divide by zero")
    ELSE IF a = Min32 /\ b = -1 THEN ArithmeticPanic("attempt to divide with overflow")
    ELSE IF b = 1 THEN Computed(a)
    ELSE IF b = -1 THEN Computed(-a)
    ELSE LET quotient == NonPositive(a) \div NonPositive(b)
         IN Computed(IF (a < 0) = (b < 0) THEN quotient ELSE -quotient)

\* JvmThread::idiv
idiv(frame) ==
    binary(frame, "Int",
           LAMBDA value1, value2 :
               LET result == div(from_le_bytes(value1), from_le_bytes(value2))
               IN IF result.status = "Ok" THEN Computed(to_le_bytes(result.value))
                  ELSE result)

\* JvmThread::irem: (value1 / value2) * value2 is no further from zero than
\* value1, so neither the product nor the difference overflows
irem(frame) ==
    binary(frame, "Int",
           LAMBDA value1, value2 :
               IF from_le_bytes(value2) = 0
               THEN [status |-> "Err", value |-> <<>>, error |-> ErrArithmetic]
               ELSE LET result == div(from_le_bytes(value1), from_le_bytes(value2))
                    IN IF result.status = "Ok"
                       THEN Computed(to_le_bytes(from_le_bytes(value1)
                                         - result.value * from_le_bytes(value2)))
                       ELSE result)

\* the operands the instructions find on the operand stack
IntOperands == {Min32, -7, -1, 0, 1, 2, Max32}
LongOperands ==
    {LongMin, LongMax} \cup {sign_extend(to_le_bytes(v)) : v \in {-1, 0, 1, 2, Max32}}

ArithSpecInit ==
    /\ VmIdle /\ HeapInit /\ LocksInit /\ LoaderIdle /\ ParserIdle
    /\ cli = NoProcess
    /\ \/ \E value1 \in IntOperands, value2 \in IntOperands :
              cur_frame = [pc |-> 0, operand_stack |-> <<FvInt(value1), FvInt(value2)>>,
                           local_variables |-> <<>>]
       \/ \E value1 \in LongOperands, value2 \in LongOperands :
              cur_frame = [pc |-> 0, operand_stack |-> <<FvLong(value1), FvLong(value2)>>,
                           local_variables |-> <<>>]
    /\ frame_call = NoFrameCall

\* the thread executes an arithmetic instruction; an error or a panic of an
\* instruction ends the thread
Arith(op, result) ==
    /\ frame_call.status = "Ok"
    /\ cur_frame' = result.frame
    /\ frame_call' = [op |-> op, status |-> result.status, error |-> result.error,
                      before |-> cur_frame.operand_stack]
    /\ UNCHANGED <<vm_vars, heap_vars, lock_vars, loader_vars, parser_vars, cli>>

ArithIadd == \E overflow_checks \in BOOLEAN : Arith("iadd", iadd_frame(cur_frame, overflow_checks))
ArithLadd == \E overflow_checks \in BOOLEAN : Arith("ladd", ladd(cur_frame, overflow_checks))
ArithIsub == \E overflow_checks \in BOOLEAN : Arith("isub", isub(cur_frame, overflow_checks))
ArithLsub == \E overflow_checks \in BOOLEAN : Arith("lsub", lsub(cur_frame, overflow_checks))
ArithIneg == \E overflow_checks \in BOOLEAN : Arith("ineg", ineg(cur_frame, overflow_checks))
ArithImul == Arith("imul", imul(cur_frame))
ArithLmul == Arith("lmul", lmul(cur_frame))
ArithIdiv == Arith("idiv", idiv(cur_frame))
ArithIrem == Arith("irem", irem(cur_frame))

ArithNext == ArithIadd \/ ArithLadd \/ ArithIsub \/ ArithLsub \/ ArithIneg \/ ArithImul \/ ArithLmul \/ ArithIdiv \/ ArithIrem

ArithSpec == ArithSpecInit /\ [][ArithNext]_vars

\* the sum, the negation and the difference of two i32 modulo 2^32, as the
\* value in -2^31 .. 2^31 - 1
Mod32Sum(a, b) ==
    IF a >= 0 /\ b >= 0 /\ a > Max32 - b THEN (a + Min32) + (b + Min32)
    ELSE IF a < 0 /\ b < 0 /\ a < Min32 - b THEN (a - Min32) + (b - Min32)
    ELSE a + b
Mod32Negation(a) == IF a = Min32 THEN Min32 ELSE -a
Mod32Difference(a, b) == Mod32Sum(Mod32Sum(a, -1 - b), 1)

\* 16 bits as the upper half of a word, and the product of two 16-bit digits
\* modulo 2^32, as the i32 of the same bits
UpperHalf(digit) == (IF digit >= 32768 THEN digit - 65536 ELSE digit) * 65536
DigitProduct(x, y) ==
    LET upper == x * (y \div 256)
    IN Mod32Sum(x * (y % 256),
                (IF upper >= 8388608 THEN upper - 16777216 ELSE upper) * 256)

\* with a = ah * 2^16 + al and b = bh * 2^16 + bl, a * b is congruent to
\* al * bl + (ah * bl + al * bh) * 2^16 modulo 2^32
Mod32Product(a, b) ==
    LET al == a % 65536
        ah == (a \div 65536) % 65536
        bl == b % 65536
        bh == (b \div 65536) % 65536
    IN Mod32Sum(DigitProduct(al, bl),
                UpperHalf(((DigitProduct(ah, bl) % 65536) + (DigitProduct(al, bh) % 65536))
                              % 65536))

\* an i64 as its two 32-bit words, each held as the i32 of the same bits
Words(bytes) == [hi |-> from_le_bytes(SubSeq(bytes, 5, 8)),
                 lo |-> from_le_bytes(SubSeq(bytes, 1, 4))]
OfWords(words) == to_le_bytes(words.lo) \o to_le_bytes(words.hi)
UnsignedLess(x, y) == IF (x < 0) = (y < 0) THEN x < y ELSE y < 0

\* the sum and the difference of two i64 modulo 2^64
Mod64Sum(a, b) ==
    LET lo == Mod32Sum(a.lo, b.lo)
    IN [hi |-> Mod32Sum(Mod32Sum(a.hi, b.hi), IF UnsignedLess(lo, a.lo) THEN 1 ELSE 0),
        lo |-> lo]
Mod64Difference(a, b) ==
    Mod64Sum(Mod64Sum(a, [hi |-> -1 - b.hi, lo |-> -1 - b.lo]), [hi |-> 0, lo |-> 1])

\* the four 16-bit digits of an i64, the least significant first
Digits(words) ==
    <<words.lo % 65536, (words.lo \div 65536) % 65536,
      words.hi % 65536, (words.hi \div 65536) % 65536>>

\* the product of two digits, a 32-bit word, times 2^(16 * shift) modulo 2^64
Shifted(word, shift) ==
    CASE shift = 0 -> [hi |-> 0, lo |-> word]
      [] shift = 1 -> [hi |-> (word \div 65536) % 65536, lo |-> UpperHalf(word % 65536)]
      [] shift = 2 -> [hi |-> word, lo |-> 0]
      [] shift = 3 -> [hi |-> UpperHalf(word % 65536), lo |-> 0]

\* the product of two i64 modulo 2^64: the sum of the products of the digits
\* i of a and j of b with i + j < 4, each at its place
Partial(a, b, i, j) == Shifted(DigitProduct(Digits(a)[i + 1], Digits(b)[j + 1]), i + j)
Mod64Product(a, b) ==
    Mod64Sum(Mod64Sum(Mod64Sum(Partial(a, b, 0, 0), Partial(a, b, 0, 1)),
                      Mod64Sum(Partial(a, b, 1, 0), Partial(a, b, 0, 2))),
             Mod64Sum(Mod64Sum(Mod64Sum(Partial(a, b, 1, 1), Partial(a, b, 2, 0)),
                               Mod64Sum(Partial(a, b, 0, 3), Partial(a, b, 1, 2))),
                      Mod64Sum(Partial(a, b, 2, 1), Partial(a, b, 3, 0))))

\* the instructions that wrap, the operands they pop and the kind they are of
WrappingInstructions == {"iadd", "isub", "imul", "ineg", "ladd", "lsub", "lmul"}
ArithOperands(op) == IF op = "ineg" THEN 1 ELSE 2
ArithKind(op) == IF op \in {"ladd", "lsub", "lmul"} THEN "Long" ELSE "Int"

\* the instruction found the operands it pops, of its kind
ArithTyped(call) ==
    /\ Len(call.before) >= ArithOperands(call.op)
    /\ \A i \in 1..ArithOperands(call.op) :
           call.before[Len(call.before) + 1 - i].kind = ArithKind(call.op)

\* the result modulo 2^32 or 2^64 of the instruction on the operands it popped
Wrapped(call) ==
    LET value2 == call.before[Len(call.before)]
        value1 == call.before[Len(call.before) - 1]
    IN CASE call.op = "iadd" -> FvInt(Mod32Sum(value1.int, value2.int))
         [] call.op = "isub" -> FvInt(Mod32Difference(value1.int, value2.int))
         [] call.op = "imul" -> FvInt(Mod32Product(value1.int, value2.int))
         [] call.op = "ineg" -> FvInt(Mod32Negation(value2.int))
         [] call.op = "ladd" -> FvLong(OfWords(Mod64Sum(Words(value1.long), Words(value2.long))))
         [] call.op = "lsub" ->
                FvLong(OfWords(Mod64Difference(Words(value1.long), Words(value2.long))))
         [] call.op = "lmul" ->
                FvLong(OfWords(Mod64Product(Words(value1.long), Words(value2.long))))

\* C32: iadd, isub, imul and ineg push the result modulo 2^32 and ladd, lsub
\* and lmul the result modulo 2^64 (this covers Integer.MAX_VALUE + 1 and
\* -Integer.MIN_VALUE); none of them aborts the thread.
C32_WrappingArithmetic ==
    (frame_call.op \in WrappingInstructions /\ ArithTyped(frame_call)) =>
        /\ frame_call.status = "Ok"
        /\ Len(cur_frame.operand_stack)
               = Len(frame_call.before) - ArithOperands(frame_call.op) + 1
        /\ cur_frame.operand_stack[Len(cur_frame.operand_stack)] = Wrapped(frame_call)

\* C33: idiv and irem with a zero divisor end in the error of an
\* ArithmeticException, an error value returned to the executor of the
\* thread, and push no result.
C33_DivisionByZeroIsError ==
    (/\ frame_call.op \in {"idiv", "irem"}
     /\ Len(frame_call.before) >= 2
     /\ \A i \in 1..2 : frame_call.before[Len(frame_call.before) + 1 - i].kind = "Int"
     /\ frame_call.before[Len(frame_call.before)].int = 0)
        => /\ frame_call.status = "Err"
           /\ frame_call.error = ErrArithmetic
           /\ cur_frame.operand_stack
                  = SubSeq(frame_call.before, 1, Len(frame_call.before) - 2)

(***************************************************************************)
(* jdk.internal.misc.Unsafe (src/jvm/src/thread.rs,                        *)
(* src/jvm/src/thread/native/unsafe.rs): objectFieldOffset1,               *)
(* compareAndSetInt, compareAndSetLong, compareAndSetReference,            *)
(* getReferenceVolatile                                                    *)
(***************************************************************************)
\* FieldValue::Integer, ::Long and ::Reference
FieldInteger(v) == [tag |-> "Integer", value |-> v]
FieldLong(v) == [tag |-> "Long", value |-> v]
FieldReference(r) == [tag |-> "Reference", value |-> r]

\* Base declares value (int), stamp (long) and a static field; Derived
\* extends Base and declares next (a reference)
UnsafeFiles ==
    [c \in {"Base", "Derived"} |->
        IF c = "Base"
        THEN ClassFileOf(NoClass, <<Field("value", {}, NoConstant),
                                    Field("MAX", {"static"}, NoConstant),
                                    Field("stamp", {}, NoConstant)>>, "MAX", <<>>, <<>>)
        ELSE ClassFileOf("Base", <<Field("next", {}, NoConstant)>>, "MAX", <<>>, <<>>)]

\* both classes are initialized
UnsafeClasses == [c \in DOMAIN UnsafeFiles |-> finished_initialization(Class_new(c))]

\* the heap: an instance of Derived and a reference array
UnsafeObjects ==
    [id \in 0..1 |->
        IF id = 0
        THEN ObjectItem("Derived", [value |-> FieldInteger(0), stamp |-> FieldLong(0),
                                    next |-> FieldReference(NullRef)])
        ELSE ReferenceArrayItem(1, "Base", <<NullRef>>)]

\* HashMap::extend: the entries of other replace those of map
MapExtend(map, other) ==
    [k \in DOMAIN map \cup DOMAIN other |-> IF k \in DOMAIN other THEN other[k] ELSE map[k]]

\* the loop of default_instance_fields over the fields of one class: static
\* fields are skipped, every other field takes the next offset
RECURSIVE instance_fields_loop(_, _, _)
instance_fields_loop(fields, offset, map) ==
    IF fields = <<>> THEN [fields |-> map, offset |-> offset]
    ELSE IF is_static(Head(fields)) THEN instance_fields_loop(Tail(fields), offset, map)
    ELSE instance_fields_loop(Tail(fields), offset + 1,
                              MapInsert(map, Head(fields).name, offset))

\* JvmThread::default_instance_fields: the offsets of the fields of the class,
\* then those of its super classes, counted on from the offset given
RECURSIVE default_instance_fields(_, _, _)
default_instance_fields(files, class, offset) ==
    LET own == instance_fields_loop(files[class].fields, offset, EmptyMap)
    IN IF has_super_class(files[class])
       THEN MapExtend(own.fields,
                      default_instance_fields(files, files[class].super_class, own.offset))
       ELSE own.fields

\* the result of a native method: Ok with a value or Err
NativeOk(value) == [status |-> "Ok", value |-> value]
NativeErr(error) == [status |-> "Err", value |-> error]

ErrNoFieldWithOffset == "no field with offset found"
ErrNoFieldNamed == "no field found"
ErrNoValueAtOffset == "no value at offset"
ErrFieldValueKind == "field value is not of the kind"

\* Unsafe.objectFieldOffset1(class, name)
objectFieldOffset1(files, class, name) ==
    LET fields == default_instance_fields(files, class, 0)
    IN IF name \in DOMAIN fields THEN NativeOk(fields[name]) ELSE NativeErr(ErrNoFieldNamed)

\* the three compareAndSet methods, the variant of FieldValue each compares
\* and writes
CompareAndSets == {"compareAndSetInt", "compareAndSetLong", "compareAndSetReference"}
FieldValueOf(fn, v) ==
    CASE fn = "compareAndSetInt" -> FieldInteger(v)
      [] fn = "compareAndSetLong" -> FieldLong(v)
      [] fn = "compareAndSetReference" -> FieldReference(v)

\* the call of a native method of Unsafe by a thread: what it was given, the
\* field or element found at the offset, the value read there, where the
\* call stands and what it returned
UnsafeCall(fn, id, offset, expected, x, name, current, pc, result) ==
    [fn |-> fn, id |-> id, offset |-> offset, expected |-> expected, x |-> x,
     name |-> name, current |-> current, pc |-> pc,
     status |-> result.status, ret |-> result.value]

\* the field of the class of the object that has the offset
FieldAtOffset(files, item, offset) ==
    {name \in DOMAIN default_instance_fields(files, item.class, 0) :
         default_instance_fields(files, item.class, 0)[name] = offset}

\* compareAndSetInt, compareAndSetLong, compareAndSetReference up to the
\* test: heap_get, the class, the loop over default_instance_fields with
\* heap_get_field for the field at the offset. The field is written later,
\* by heap_set_field, which takes the heap mutex again.
compare_and_set_test(files, items, fn, id, offset, expected, x) ==
    IF fn = "compareAndSetReference" /\ items[id].kind # "Object"
    THEN UnsafeCall(fn, id, offset, expected, x, "element",
                    IF offset < Len(items[id].values)
                    THEN FieldReference(items[id].values[offset + 1])
                    ELSE [tag |-> "none"],
                    "store", NativeOk(None))
    ELSE IF FieldAtOffset(files, items[id], offset) = {}
    THEN UnsafeCall(fn, id, offset, expected, x, "none", [tag |-> "none"], "done",
                    NativeErr(ErrNoFieldWithOffset))
    ELSE LET name == CHOOSE n \in FieldAtOffset(files, items[id], offset) : TRUE
             field == Heap_get_field(items, id, name)
         IN IF field.status = "Err"
            THEN UnsafeCall(fn, id, offset, expected, x, name, [tag |-> "none"], "done",
                            NativeErr(field.value))
            ELSE IF field.value.tag # FieldValueOf(fn, expected).tag
            THEN UnsafeCall(fn, id, offset, expected, x, name, field.value, "done",
                            NativeErr(ErrFieldValueKind))
            ELSE IF field.value = FieldValueOf(fn, expected)
            THEN UnsafeCall(fn, id, offset, expected, x, name, field.value, "set",
                            NativeOk(None))
            ELSE UnsafeCall(fn, id, offset, expected, x, name, field.value, "done",
                            NativeErr(ErrNoFieldWithOffset))

\* a thread that is not inside a native method of Unsafe
BetweenCalls(t) == IF calls[t] = <<>> THEN TRUE ELSE calls[t][1].pc = "done"

\* a thread calls one of the compareAndSet methods
compare_and_set(t, fn, id, offset, expected, x) ==
    /\ BetweenCalls(t)
    /\ calls' = [calls EXCEPT ![t] =
                    <<compare_and_set_test(class_files, heap_items, fn, id, offset,
                                           expected, x)>>]
    /\ UNCHANGED <<mon_vars, thread_vars, classes, loader_cache, class_files, main_class,
                   clinit_runs, reads, rest_vars>>

\* the write of a compareAndSet method whose test held: heap_set_field, or
\* store_into_reference_array for an array, and return 1
compare_and_set_write(t) ==
    /\ calls[t] # <<>>
    /\ calls[t][1].pc \in {"set", "store"}
    /\ LET call == calls[t][1]
           written == IF call.pc = "set"
                      THEN Heap_set_field(heap_items, call.id, call.name,
                                          FieldValueOf(call.fn, call.x))
                      ELSE Heap_store_into_reference_array(heap_items, call.id,
                                                           call.offset, call.x)
       IN /\ heap_items' = written.items
          /\ heap_poisoned' = (heap_poisoned \/ written.status = "panic")
          /\ calls' = [calls EXCEPT ![t] =
                          <<[call EXCEPT !.pc = "done", !.status = written.status,
                                         !.ret = IF written.status = "Ok" THEN 1
                                                 ELSE written.value]>>]
    /\ UNCHANGED <<mon_vars, thread_vars, classes, loader_cache, class_files, main_class,
                   clinit_runs, reads>>
    /\ UNCHANGED <<heap_current_id, heap_call, allocated, last_stored>>
    /\ UNCHANGED <<lock_vars, loader_vars, parser_vars, other_vars>>

\* Unsafe.getReferenceVolatile(object, offset)
getReferenceVolatile(files, items, id, offset) ==
    IF items[id].kind = "ReferenceArray"
    THEN IF offset < Len(items[id].values)
         THEN UnsafeCall("getReferenceVolatile", id, offset, None, None, "element",
                         FieldReference(items[id].values[offset + 1]), "done",
                         NativeOk(items[id].values[offset + 1]))
         ELSE UnsafeCall("getReferenceVolatile", id, offset, None, None, "none",
                         [tag |-> "none"], "done", NativeErr(ErrNoValueAtOffset))
    ELSE IF FieldAtOffset(files, items[id], offset) = {}
    THEN UnsafeCall("getReferenceVolatile", id, offset, None, None, "none",
                    [tag |-> "none"], "done", NativeErr(ErrNoFieldWithOffset))
    ELSE LET name == CHOOSE n \in FieldAtOffset(files, items[id], offset) : TRUE
             field == Heap_get_field(items, id, name)
         IN IF field.status = "Err"
            THEN UnsafeCall("getReferenceVolatile", id, offset, None, None, name,
                            [tag |-> "none"], "done", NativeErr(field.value))
            ELSE IF field.value.tag = "Long"
            THEN UnsafeCall("getReferenceVolatile", id, offset, None, None, name,
                            field.value, "done", [status |-> "panic", value |-> "todo"])
            ELSE UnsafeCall("getReferenceVolatile", id, offset, None, None, name,
                            field.value, "done", NativeOk(field.value.value))

\* a thread calls getReferenceVolatile
get_reference_volatile(t, id, offset) ==
    /\ BetweenCalls(t)
    /\ calls' = [calls EXCEPT ![t] =
                    <<getReferenceVolatile(class_files, heap_items, id, offset)>>]
    /\ UNCHANGED <<mon_vars, thread_vars, classes, loader_cache, class_files, main_class,
                   clinit_runs, reads, rest_vars>>

\* the field a method is used on: an int, a long or a reference
FieldUsedBy(fn) ==
    CASE fn = "compareAndSetInt" -> "value"
      [] fn = "compareAndSetLong" -> "stamp"
      [] OTHER -> "next"

\* the offsets the program passes to a method are those objectFieldOffset1
\* returned for the field, from a class that has it
UnsafeOffsets(fn) ==
    {objectFieldOffset1(UnsafeFiles, class, FieldUsedBy(fn)).value :
         class \in {c \in DOMAIN UnsafeFiles :
                        objectFieldOffset1(UnsafeFiles, c, FieldUsedBy(fn)).status = "Ok"}}

\* the object with an offset, or the reference array with an index
UnsafeTargets(fn) ==
    {<<0, offset>> : offset \in UnsafeOffsets(fn)}
        \cup (IF FieldUsedBy(fn) = "next" THEN {<<1, 0>>} ELSE {})

\* the value expected by a compareAndSet and the new value, which differs
\* from one thread to the other
Expected(fn) == IF fn = "compareAndSetReference" THEN NullRef ELSE 0
NewValue(fn, t) == IF fn = "compareAndSetReference" THEN HeapItem(t - 1) ELSE t

UnsafeSpecInit ==
    /\ MonInit /\ ThreadsIdle
    /\ calls = [t \in VmThreads |-> <<>>]
    /\ classes = UnsafeClasses
    /\ loader_cache = DOMAIN UnsafeFiles
    /\ class_files = UnsafeFiles
    /\ main_class = NoClass
    /\ clinit_runs = [c \in DOMAIN class_files |-> 0]
    /\ reads = {}
    /\ heap_current_id = 2
    /\ heap_items = UnsafeObjects
    /\ heap_poisoned = FALSE
    /\ heap_call = NoHeapCall
    /\ allocated = <<0, 1>>
    /\ last_stored = EmptyMap
    /\ LocksInit /\ LoaderIdle /\ ParserIdle /\ OthersIdle

CompareAndSet ==
    \E t \in VmThreads, fn \in CompareAndSets : \E target \in UnsafeTargets(fn) :
        compare_and_set(t, fn, target[1], target[2], Expected(fn), NewValue(fn, t))
CompareAndSetWrite ==
    \E t \in VmThreads : compare_and_set_write(t)
GetReferenceVolatile ==
    \E t \in VmThreads, target \in UnsafeTargets("getReferenceVolatile") :
        get_reference_volatile(t, target[1], target[2])

UnsafeNext == CompareAndSet \/ CompareAndSetWrite \/ GetReferenceVolatile

UnsafeSpec == UnsafeSpecInit /\ [][UnsafeNext]_vars

\* the class and its super classes, and the instance fields a class has:
\* its own and those it inherits
RECURSIVE SuperClasses(_, _)
SuperClasses(files, class) ==
    IF has_super_class(files[class])
    THEN {class} \cup SuperClasses(files, files[class].super_class)
    ELSE {class}
InstanceFieldsOf(files, class) == DOMAIN default_instance_fields(files, class, 0)

\* C34: for every class C, every instance field f that C has and every object
\* o whose runtime class is C or a subclass of C, the offset returned by
\* objectFieldOffset1(C, f) identifies the field f of o in compareAndSetInt,
\* compareAndSetLong, compareAndSetReference and getReferenceVolatile; two
\* fields of one object never share an offset.
C34_OffsetIdentifiesField ==
    /\ \A class \in DOMAIN class_files :
           \A f \in InstanceFieldsOf(class_files, class),
              g \in InstanceFieldsOf(class_files, class) :
               f # g => objectFieldOffset1(class_files, class, f).value
                            # objectFieldOffset1(class_files, class, g).value
    /\ \A t \in VmThreads :
           (calls[t] # <<>> /\ heap_items[calls[t][1].id].kind = "Object") =>
               \A class \in SuperClasses(class_files, heap_items[calls[t][1].id].class) :
                   \A f \in InstanceFieldsOf(class_files, class) :
                       objectFieldOffset1(class_files, class, f).value = calls[t][1].offset
                           => calls[t][1].name = f

\* a compareAndSet that has returned 1
Succeeded(call) ==
    /\ call.fn \in CompareAndSets
    /\ call.pc = "done"
    /\ call.status = "Ok"
    /\ call.ret = 1

\* C36: of two threads that call compareAndSet on the same field of the same
\* object with the same expected value and different new values, at most one
\* succeeds. (No call of the model writes the expected value back.)
C36_AtMostOneSucceeds ==
    \A t1 \in VmThreads, t2 \in VmThreads :
        (/\ t1 # t2
         /\ calls[t1] # <<>> /\ calls[t2] # <<>>
         /\ calls[t1][1].fn = calls[t2][1].fn
         /\ calls[t1][1].id = calls[t2][1].id
         /\ calls[t1][1].offset = calls[t2][1].offset
         /\ calls[t1][1].expected = calls[t2][1].expected
         /\ calls[t1][1].x # calls[t2][1].x)
            => ~(Succeeded(calls[t1][1]) /\ Succeeded(calls[t2][1]))

\* the field or the array element a call addresses, as the heap holds it
Addressed(items, call) ==
    IF items[call.id].kind = "Object" THEN items[call.id].fields[call.name]
    ELSE FieldReference(items[call.id].values[call.offset + 1])

\* a step by which the call of thread t returns
Returns(t) ==
    /\ calls'[t] # <<>>
    /\ calls'[t][1].pc = "done"
    /\ IF calls[t] = <<>> THEN TRUE ELSE calls[t][1].pc # "done"

\* C37: a compareAndSet writes the new value and returns 1 exactly when the
\* current value of the field or array element it addresses equals the
\* expected value; otherwise it returns 0, leaves the value as it is and
\* does not abort the thread.
C37_CompareAndSet ==
    [][\A t \in VmThreads :
          (/\ Returns(t)
           /\ calls'[t][1].fn \in CompareAndSets
           /\ calls'[t][1].current.tag
                  = FieldValueOf(calls'[t][1].fn, calls'[t][1].expected).tag)
              => IF calls'[t][1].current
                        = FieldValueOf(calls'[t][1].fn, calls'[t][1].expected)
                 THEN /\ calls'[t][1].status = "Ok"
                      /\ calls'[t][1].ret = 1
                      /\ Addressed(heap_items', calls'[t][1])
                             = FieldValueOf(calls'[t][1].fn, calls'[t][1].x)
                 ELSE /\ calls'[t][1].status = "Ok"
                      /\ calls'[t][1].ret = 0
                      /\ heap_items' = heap_items]_vars

(***************************************************************************)
(* Initialization of one class by several threads                          *)
(***************************************************************************)
\* a step by which thread t runs insert_class for the record of class c that
\* its initialize built
InsertsClass(t, c) ==
    /\ Active(t, "initialize", "insert")
    /\ Top(t).identifier = c
    /\ Len(calls'[t]) = Len(calls[t])
    /\ calls'[t][Len(calls'[t])].pc = initialize_next("insert")

\* C35: when several threads that share the class table call initialize(C),
\* the <clinit> of C is executed at most once in total, the record of C is
\* inserted into the table at most once, and no insertion replaces static
\* values that the <clinit> run by another thread has written.
C35_InitializedOnceByAll ==
    [][/\ \A c \in DOMAIN clinit_runs : clinit_runs'[c] <= 1
       /\ \A t \in VmThreads, c \in DOMAIN class_files :
              InsertsClass(t, c) =>
                  /\ c \notin DOMAIN classes
                  /\ \A f \in DOMAIN classes'[c].fields :
                         (c \in DOMAIN classes /\ f \in DOMAIN classes[c].fields)
                             => classes'[c].fields[f] = classes[c].fields[f]]_vars

(***************************************************************************)
(* A monitor after its last exit                                           *)
(***************************************************************************)
\* no thread has entries outstanding on the monitor the call of this step is
\* made on: every enter of it has been matched by an exit
FullyReleased ==
    \A t \in ThreadIds : HeldOf(mon_call'.table)[mon_call'.key][t] = 0

\* C38: after the last exit of a monitor by its owner, when its entry count
\* is back to zero, an enter of that monitor by any thread, the former owner
\* or another, succeeds with the count 1: a monitor that is fully released
\* never stays unenterable.
C38_ReleasedIsEnterable ==
    [][(mon_call'.op = "enter" /\ FullyReleased) =>
          /\ mon_call'.ret = Ok
          /\ mon_call'.key \in DOMAIN TableAfter(mon_call'.table)
          /\ TableAfter(mon_call'.table)[mon_call'.key]
                 = [entry_count |-> 1, owner |-> mon_call'.thread]]_vars

(***************************************************************************)
(* The thread id of a VM thread                                            *)
(***************************************************************************)
\* thread t is inside JvmThread::execute: it executes instructions
ExecutesInstructions(t) ==
    \E i \in 1..Len(calls[t]) : calls[t][i].fn = "execute"

\* C39: every VM thread, one started through Thread.start0 included, has a
\* thread id of its own, distinct from the id of every other VM thread,
\* before it executes its first instruction, so that no monitorenter,
\* monitorexit or call of a synchronized method of the thread fails for lack
\* of a thread id.
C39_ThreadIdBeforeFirstInstruction ==
    \A t \in VmThreads :
        /\ ExecutesInstructions(t) =>
               /\ current_thread_id[t] # None
               /\ \A u \in VmThreads \ {t} : current_thread_id[u] # current_thread_id[t]
        /\ thread_error[t] # ErrNoThreadId

(***************************************************************************)
(* instanceof (JvmThread::instance_of and check_super_classes,             *)
(* src/jvm/src/thread.rs)                                                  *)
(***************************************************************************)
\* the class table after
\*   class Root {}  class Middle extends Root {}  class Leaf extends Middle {}
\*   class Other {}  interface Iface {}
\* are initialized
InstanceClasses ==
    [c \in {"Root", "Middle", "Leaf", "Other", "Iface"} |->
        [super_class |-> IF c = "Middle" THEN "Root"
                         ELSE IF c = "Leaf" THEN "Middle" ELSE NoClass,
         interface |-> c = "Iface"]]

\* the heap: a Leaf, a Middle, a Root, an Other and an array of Root
InstanceObjects ==
    [id \in 0..4 |->
        IF id = 4 THEN ReferenceArrayItem(4, "Root", <<>>)
        ELSE ObjectItem(IF id = 0 THEN "Leaf" ELSE IF id = 1 THEN "Middle"
                        ELSE IF id = 2 THEN "Root" ELSE "Other", EmptyMap)]

\* the references the instruction finds on the operand stack
InstanceOperands == {NullRef, ClassRef("Root")} \cup {HeapItem(id) : id \in DOMAIN InstanceObjects}

ErrNotReference == "frame value is not a reference"
ErrInstanceOfArray == "TOOD: instanceof for arrays"
ErrInstanceOfInterface == "TODO: instanceof check with interface"

\* Class::is_interface
is_interface(class) == class.interface

\* JvmThread::check_super_classes: is the identifier among the super classes
\* of the class
RECURSIVE check_super_classes(_, _, _)
check_super_classes(table, class, identifier) ==
    IF has_super_class(table[class])
    THEN IF table[class].super_class = identifier THEN TRUE
         ELSE check_super_classes(table, table[class].super_class, identifier)
    ELSE FALSE

\* JvmThread::instance_of for the class the constant pool item names:
\* check_super_classes is called with that class, resolved, and its own
\* identifier
instance_of(frame, items, table, identifier) ==
    IF frame.operand_stack = <<>> THEN FrameErr(frame, ErrNoOperands)
    ELSE LET operand == frame.operand_stack[Len(frame.operand_stack)]
             popped == [frame EXCEPT !.operand_stack = SubSeq(@, 1, Len(@) - 1)]
         IN IF operand.kind # "Reference" THEN FrameErr(popped, ErrNotReference)
            ELSE IF operand.reference.kind = "Null" THEN push_operand(popped, FvInt(0))
            ELSE IF operand.reference.kind # "HeapItem" THEN FrameErr(popped, ErrNoHeapId)
            ELSE IF items[operand.reference.id].kind # "Object"
            THEN FrameErr(popped, ErrInstanceOfArray)
            ELSE IF is_interface(table[identifier])
            THEN FrameErr(popped, ErrInstanceOfInterface)
            ELSE IF items[operand.reference.id].class = identifier
            THEN push_operand(popped, FvInt(1))
            ELSE IF check_super_classes(table, identifier, identifier)
            THEN push_operand(popped, FvInt(1))
            ELSE push_operand(popped, FvInt(0))

InstanceOfSpecInit ==
    /\ VmIdle /\ LocksInit /\ LoaderIdle /\ ParserIdle
    /\ cli = NoProcess
    /\ heap_current_id = 5
    /\ heap_items = InstanceObjects
    /\ heap_poisoned = FALSE
    /\ heap_call = NoHeapCall
    /\ allocated = <<0, 1, 2, 3, 4>>
    /\ last_stored = EmptyMap
    /\ \E n \in 1..2 : \E operands \in [1..n -> InstanceOperands] :
           cur_frame = [pc |-> 0, operand_stack |-> [i \in 1..n |-> FvReference(operands[i])],
                        local_variables |-> <<>>]
    /\ frame_call = NoFrameCall

\* the thread executes instanceof for a class; an error ends the thread
InstanceOf ==
    \E identifier \in DOMAIN InstanceClasses :
        LET result == instance_of(cur_frame, heap_items, InstanceClasses, identifier) IN
        /\ frame_call.status = "Ok"
        /\ cur_frame' = result.frame
        /\ frame_call' = [op |-> "instanceof", status |-> result.status,
                          error |-> result.error, before |-> cur_frame.operand_stack,
                          class |-> identifier]
        /\ UNCHANGED <<vm_vars, heap_vars, lock_vars, loader_vars, parser_vars, cli>>

InstanceOfNext == InstanceOf

InstanceOfSpec == InstanceOfSpecInit /\ [][InstanceOfNext]_vars

\* the operand an executed instanceof popped
InstanceOperand == frame_call.before[Len(frame_call.before)]

\* the operand stack an executed instanceof should leave: the operand
\* replaced by the int
InstanceResult(value) ==
    SubSeq(frame_call.before, 1, Len(frame_call.before) - 1) \o <<FvInt(value)>>

\* C40: instanceof on a reference that is not null and not an array, for a
\* class T that is not an interface, pushes 1 exactly when the runtime class
\* of the object is T or has T in its chain of super classes, and 0
\* otherwise; on null it pushes 0.
C40_InstanceOf ==
    (/\ frame_call.op = "instanceof"
     /\ frame_call.before # <<>>
     /\ InstanceOperand.kind = "Reference") =>
        LET reference == InstanceOperand.reference IN
        IF reference.kind = "Null"
        THEN frame_call.status = "Ok" /\ cur_frame.operand_stack = InstanceResult(0)
        ELSE (/\ reference.kind = "HeapItem"
              /\ heap_items[reference.id].kind = "Object"
              /\ ~is_interface(InstanceClasses[frame_call.class])) =>
                 /\ frame_call.status = "Ok"
                 /\ cur_frame.operand_stack =
                        InstanceResult(IF frame_call.class \in
                                              SuperClasses(InstanceClasses,
                                                           heap_items[reference.id].class)
                                       THEN 1 ELSE 0)

====
